---- MODULE Spec2Model ----
(***************************************************************************)
(* ShortsSync: the quota store and the upload dispatch of                  *)
(* youtube_uploader.py, the upload ledger of video_history.py and the      *)
(* processing cycle of main.py, as a state machine.                        *)
(***************************************************************************)
EXTENDS Integers, Sequences, FiniteSets, TLC

(* ------------------------------ bounds -------------------------------- *)

\* a batch handed to _upload_immediately is the videos 1..n, n <= NumVideos
NumVideos == 5
\* direct calls of track_api_usage made outside a dispatch
MaxTrackCalls == 2
\* the count argument of a direct check_quota_available / track_api_usage
MaxCount == 3
\* entries per channel list of the ledger
MaxHistory == 2
\* videos in a list handed to calculate_dynamic_view_threshold
MaxViews == 3

(* ------------------------- program constants -------------------------- *)

\* self.daily_quota_limit
DailyQuotaLimit == 10000
\* QUOTA_COSTS['videos.insert']
CostVideosInsert == 1600
\* QUOTA_COSTS['videos.list']
CostVideosList == 1
\* QUOTA_COSTS['videos.update']
CostVideosUpdate == 50
\* QUOTA_COSTS['playlistItems.insert']
CostPlaylistInsert == 50
\* QUOTA_COSTS['channels.list']
CostChannelsList == 1
\* QUOTA_COSTS.get(operation, 1): the cost of an operation not in the table
CostDefault == 1

\* the date keys of the quota file: one day and the day after it
FirstDay == "2024-01-01"
Days == {"2024-01-01", "2024-01-02"}
DayAfter(day) == IF day = "2024-01-01" THEN "2024-01-02" ELSE day
Videos == 1..NumVideos
\* the operations a record's breakdown can hold
Ops == {"videos.insert", "videos.list", "videos.update",
        "playlistItems.insert", "channels.list"}
\* the operations the direct calls are made with
DirectOps == {"videos.insert", "videos.list", "videos.update"}

\* QUOTA_COSTS.get(operation, 1)
QUOTA_COSTS(op) ==
    CASE op = "videos.insert" -> CostVideosInsert
      [] op = "videos.list" -> CostVideosList
      [] op = "videos.update" -> CostVideosUpdate
      [] op = "playlistItems.insert" -> CostPlaylistInsert
      [] op = "channels.list" -> CostChannelsList
      [] OTHER -> CostDefault

\* self.daily_quota_limit * 0.05 (500.0 for the limit of 10000)
ReserveQuota == (DailyQuotaLimit * 5) \div 100

\* Python's int(a / b) for b > 0: truncation toward zero
TruncDiv(a, b) == IF a >= 0 THEN a \div b ELSE -((-a) \div b)

Max(a, b) == IF a >= b THEN a ELSE b

\* config.YOUTUBE_DEFAULTS has no 'shorts_playlist_id' key
ShortsPlaylistConfigured == FALSE

(* ---------------------------- quota store ----------------------------- *)

NoOps == [o \in Ops |-> [count |-> 0, cost |-> 0]]

\* a date with no record in youtube_api_quota.json
NoRec == [present |-> FALSE, used |-> 0, remaining |-> 0, exceeded |-> FALSE,
          hasOps |-> FALSE, ops |-> NoOps]

\* the record track_api_usage creates for a date that has none
FreshRec == [present |-> TRUE, used |-> 0, remaining |-> DailyQuotaLimit,
             exceeded |-> FALSE, hasOps |-> TRUE, ops |-> NoOps]

\* the record an earlier run leaves after i uploads and u metadata updates
PriorRec(i, u) ==
    LET used == i * CostVideosInsert + u * CostVideosUpdate
    IN  [present |-> TRUE, used |-> used,
         remaining |-> Max(0, DailyQuotaLimit - used),
         exceeded |-> FALSE, hasOps |-> TRUE,
         ops |-> [o \in Ops |->
                    CASE o = "videos.insert" ->
                           [count |-> i, cost |-> i * CostVideosInsert]
                      [] o = "videos.update" ->
                           [count |-> u, cost |-> u * CostVideosUpdate]
                      [] OTHER -> [count |-> 0, cost |-> 0]]]

\* what the quota file holds for day 1 when the program starts
PriorRecords == {NoRec, PriorRec(4, 0), PriorRec(5, 10)}

VARIABLES
    today,       \* datetime.now().strftime('%Y-%m-%d')
    quota,       \* youtube_api_quota.json: date -> record
    writable,    \* the file system accepts writes
    api,         \* self.api is not None
    ret,         \* the last call of a quota operation and what it returned
    trackCalls,  \* direct track_api_usage calls made so far
    d,           \* the running / last _upload_immediately call
    published,   \* audited video -> successful publishes so far (2: twice or more)
    cycleRet,    \* what the last process_channels run returned
    history,     \* VideoHistory.history: channel -> list of entries
    historyFile, \* data/video_history.json
    markRet,     \* the last ledger call and what it returned
    shutdown_requested,  \* main.py: the flag signal_handler sets
    writers,     \* processes that check and then commit on the same quota file
    observer,    \* the dashboard process: where it is and its last call
    ledgerOnDisk, \* data/video_history.json exists
    thresholdRet, \* the last calculate_dynamic_view_threshold call and its result
    analyzerRet, \* the last call of a ContentAnalyzer selection method
    scheduleRet  \* the last call of a scheduling method of the uploader

quotaVars == <<today, quota, writable, api, ret, trackCalls>>
uploadVars == <<d, published>>
cycleVars == <<cycleRet>>
ledgerVars == <<history, historyFile, markRet>>
observerVars == <<observer, ledgerOnDisk>>
plannerVars == <<analyzerRet, scheduleRet>>
auxVars == <<shutdown_requested, writers, observerVars, thresholdRet,
             plannerVars>>
vars == <<today, quota, writable, api, ret, trackCalls, d, published,
          cycleRet, history, historyFile, markRet, shutdown_requested,
          writers, observer, ledgerOnDisk, thresholdRet, analyzerRet,
          scheduleRet>>

\* quota_data.get(today, {}).get("used", 0)
UsedOn(q, day) == IF q[day].present THEN q[day].used ELSE 0

\* _save_quota_usage: the file holds the new data when the write succeeds
_save_quota_usage(q, qNew, w) == IF w THEN qNew ELSE q

\* a check that keeps no reserve and asks for the whole count
check_quota_available_NoReserve(q, day, op, count) ==
    QUOTA_COSTS(op) * count <= DailyQuotaLimit - UsedOn(q, day)

\* a check that reads used from the first date of the file, not from today
check_quota_available_FirstRecord(q, day, op, count) ==
    LET cost_per_op == QUOTA_COSTS(op)
        total_cost == cost_per_op * count
        remaining_quota == DailyQuotaLimit - UsedOn(q, FirstDay)
        effective_remaining == remaining_quota - ReserveQuota
    IN  IF op = "videos.insert"
        THEN IF total_cost > effective_remaining
             THEN TruncDiv(effective_remaining, cost_per_op) > 0
             ELSE TRUE
        ELSE ~(total_cost > remaining_quota)

\* a check that compares the cost with the whole daily limit
check_quota_available_IgnoresUsed(q, day, op, count) ==
    QUOTA_COSTS(op) * count <= DailyQuotaLimit

\* check_quota_available(operation, count)
check_quota_available(q, day, op, count) ==
    LET cost_per_op == QUOTA_COSTS(op)
        total_cost == cost_per_op * count
        used_quota == UsedOn(q, day)
        remaining_quota == DailyQuotaLimit - used_quota
        effective_remaining == remaining_quota - ReserveQuota
        possible_uploads == TruncDiv(effective_remaining, cost_per_op)
    IN  IF op = "videos.insert"
        THEN IF total_cost > effective_remaining
             THEN possible_uploads > 0
             ELSE TRUE
        ELSE ~(total_cost > remaining_quota)

\* a track_api_usage that stores limit - used without the floor at 0
track_api_usage_Unclamped(q, day, op, count, w) ==
    LET total_cost == QUOTA_COSTS(op) * count
        rec0 == IF q[day].present THEN q[day] ELSE FreshRec
        used1 == rec0.used + total_cost
        rec2 == [rec0 EXCEPT !.used = used1,
                             !.remaining = DailyQuotaLimit - used1,
                             !.ops[op] = [count |-> @.count + count,
                                          cost |-> @.cost + total_cost]]
    IN  IF ~rec0.hasOps
        THEN [quota |-> q, value |-> FALSE]
        ELSE [quota |-> _save_quota_usage(q, [q EXCEPT ![day] = rec2], w),
              value |-> TRUE]

\* a track_api_usage that counts the operation but not its cost
track_api_usage_NoBreakdown(q, day, op, count, w) ==
    LET total_cost == QUOTA_COSTS(op) * count
        rec0 == IF q[day].present THEN q[day] ELSE FreshRec
        used1 == rec0.used + total_cost
        rec2 == [rec0 EXCEPT !.used = used1,
                             !.remaining = Max(0, DailyQuotaLimit - used1),
                             !.ops[op] = [count |-> @.count + count,
                                          cost |-> @.cost]]
    IN  IF ~rec0.hasOps
        THEN [quota |-> q, value |-> FALSE]
        ELSE [quota |-> _save_quota_usage(q, [q EXCEPT ![day] = rec2], w),
              value |-> TRUE]

\* a track_api_usage that stores the cost of the call as the date's used
track_api_usage_Overwrite(q, day, op, count, w) ==
    LET total_cost == QUOTA_COSTS(op) * count
        rec0 == IF q[day].present THEN q[day] ELSE FreshRec
        rec2 == [rec0 EXCEPT !.used = total_cost,
                             !.remaining = Max(0, DailyQuotaLimit - total_cost),
                             !.ops[op] = [count |-> @.count + count,
                                          cost |-> @.cost + total_cost]]
    IN  IF ~rec0.hasOps
        THEN [quota |-> q, value |-> FALSE]
        ELSE [quota |-> _save_quota_usage(q, [q EXCEPT ![day] = rec2], w),
              value |-> TRUE]

\* track_api_usage(operation, count): the file afterwards and the value returned
track_api_usage(q, day, op, count, w) ==
    LET total_cost == QUOTA_COSTS(op) * count
        rec0 == IF q[day].present THEN q[day] ELSE FreshRec
        used1 == rec0.used + total_cost
        rec1 == [rec0 EXCEPT !.used = used1,
                             !.remaining = Max(0, DailyQuotaLimit - used1)]
        rec2 == [rec1 EXCEPT !.ops[op] = [count |-> @.count + count,
                                          cost |-> @.cost + total_cost]]
    IN  IF ~rec0.hasOps
        THEN \* quota_data[today]["operations"] raises KeyError: nothing is saved
             [quota |-> q, value |-> FALSE]
        ELSE [quota |-> _save_quota_usage(q, [q EXCEPT ![day] = rec2], w),
              value |-> TRUE]

\* upload_video, the quotaExceeded branch of the HttpError handler
quota_exceeded_update(q, day, w) ==
    LET rec0 == IF q[day].present THEN q[day]
                ELSE [NoRec EXCEPT !.present = TRUE]
    IN  _save_quota_usage(q,
          [q EXCEPT ![day] = [rec0 EXCEPT !.used = DailyQuotaLimit,
                                          !.remaining = 0,
                                          !.exceeded = TRUE]], w)

\* what the destination does with one videos.insert request:
\*   "ok"             _execute_upload_request returns a video id
\*   "none"           no video id comes back: _execute_upload_request returns
\*                    None, or the client raises an HttpError with a reason
\*                    other than quotaExceeded, or another exception
\*   "quotaExceeded"  request.next_chunk() raises HttpError 403 quotaExceeded:
\*                    _execute_upload_request re-authenticates and retries,
\*                    and returns None (its own handlers catch every error)
\*   "quotaRaised"    an HttpError with reason quotaExceeded is raised in
\*                    upload_video's try block outside _execute_upload_request
\*                    and reaches upload_video's handler
Outcomes == {"ok", "none", "quotaExceeded", "quotaRaised"}

\* an upload_video without the quota check before the request
upload_video_NoCheck(q, day, apiOk, outcome, w) ==
    IF ~apiOk
    THEN [quota |-> q, id |-> FALSE, called |-> FALSE]
    ELSE IF outcome = "ok"
    THEN [quota |-> track_api_usage(q, day, "videos.insert", 1, w).quota,
          id |-> TRUE, called |-> TRUE]
    ELSE IF outcome = "quotaRaised"
    THEN [quota |-> quota_exceeded_update(q, day, w),
          id |-> FALSE, called |-> TRUE]
    ELSE [quota |-> q, id |-> FALSE, called |-> TRUE]

\* an upload_video that does not track the successful request
upload_video_NoTrack(q, day, apiOk, outcome, w) ==
    IF ~apiOk
    THEN [quota |-> q, id |-> FALSE, called |-> FALSE]
    ELSE IF ~check_quota_available(q, day, "videos.insert", 1)
    THEN [quota |-> q, id |-> FALSE, called |-> FALSE]
    ELSE IF outcome = "ok"
    THEN [quota |-> q, id |-> TRUE, called |-> TRUE]
    ELSE IF outcome = "quotaRaised"
    THEN [quota |-> quota_exceeded_update(q, day, w),
          id |-> FALSE, called |-> TRUE]
    ELSE [quota |-> q, id |-> FALSE, called |-> TRUE]

\* an upload_video that tracks the request before it knows the outcome
upload_video_TrackFirst(q, day, apiOk, outcome, w) ==
    IF ~apiOk
    THEN [quota |-> q, id |-> FALSE, called |-> FALSE]
    ELSE IF ~check_quota_available(q, day, "videos.insert", 1)
    THEN [quota |-> q, id |-> FALSE, called |-> FALSE]
    ELSE LET q1 == track_api_usage(q, day, "videos.insert", 1, w).quota
         IN  IF outcome = "ok"
             THEN [quota |-> q1, id |-> TRUE, called |-> TRUE]
             ELSE IF outcome = "quotaRaised"
             THEN [quota |-> quota_exceeded_update(q1, day, w),
                   id |-> FALSE, called |-> TRUE]
             ELSE [quota |-> q1, id |-> FALSE, called |-> TRUE]

\* upload_video(video_file, video_data): the quota file afterwards, whether a
\* video id is returned, and whether the videos.insert request was made
upload_video(q, day, apiOk, outcome, w) ==
    IF ~apiOk
    THEN \* "YouTube API client not available"
         [quota |-> q, id |-> FALSE, called |-> FALSE]
    ELSE IF ~check_quota_available(q, day, "videos.insert", 1)
    THEN \* "Not enough YouTube API quota available for video upload"
         [quota |-> q, id |-> FALSE, called |-> FALSE]
    ELSE IF outcome = "ok"
    THEN LET q1 == track_api_usage(q, day, "videos.insert", 1, w).quota
             q2 == IF ShortsPlaylistConfigured
                      /\ check_quota_available(q1, day, "playlistItems.insert", 1)
                   THEN track_api_usage(q1, day, "playlistItems.insert", 1, w).quota
                   ELSE q1
         IN  [quota |-> q2, id |-> TRUE, called |-> TRUE]
    ELSE IF outcome = "quotaRaised"
    THEN [quota |-> quota_exceeded_update(q, day, w),
          id |-> FALSE, called |-> TRUE]
    ELSE [quota |-> q, id |-> FALSE, called |-> TRUE]

(* ------------------------------ actions ------------------------------- *)

NoRet == [call |-> "none", op |-> "none", count |-> 0, value |-> FALSE,
          used0 |-> 0, day |-> "none", checked |-> FALSE]

\* a direct call of check_quota_available
CheckQuota ==
    \E op \in DirectOps, count \in 1..MaxCount :
        /\ ret' = [call |-> "check", op |-> op, count |-> count,
                   value |-> check_quota_available(quota, today, op, count),
                   used0 |-> UsedOn(quota, today), day |-> today,
                   checked |-> FALSE]
        /\ UNCHANGED <<today, quota, writable, api, trackCalls>>
        /\ UNCHANGED <<uploadVars, cycleVars, ledgerVars, auxVars>>

\* a direct call of track_api_usage; ret.checked records that the call before
\* it was check_quota_available of the same operation and count, on the same
\* date, and returned True
TrackApiUsage ==
    \E op \in DirectOps, count \in 1..MaxCount :
        /\ trackCalls < MaxTrackCalls
        /\ LET r == track_api_usage(quota, today, op, count, writable)
           IN  /\ quota' = r.quota
               /\ ret' = [call |-> "track", op |-> op, count |-> count,
                          value |-> r.value,
                          used0 |-> UsedOn(quota, today), day |-> today,
                          checked |-> /\ ret.call = "check" /\ ret.value
                                      /\ ret.op = op /\ ret.count = count
                                      /\ ret.day = today]
        /\ trackCalls' = trackCalls + 1
        /\ UNCHANGED <<today, writable, api>>
        /\ UNCHANGED <<uploadVars, cycleVars, ledgerVars, auxVars>>

\* a direct call of upload_video
UploadVideo ==
    \E outcome \in Outcomes :
        /\ trackCalls < MaxTrackCalls
        /\ LET r == upload_video(quota, today, api, outcome, writable)
           IN  /\ quota' = r.quota
               /\ ret' = [call |-> "upload", op |-> outcome, count |-> 1,
                          value |-> r.id,
                          used0 |-> UsedOn(quota, today), day |-> today,
                          checked |-> FALSE]
        /\ trackCalls' = trackCalls + 1
        /\ UNCHANGED <<today, writable, api>>
        /\ UNCHANGED <<uploadVars, cycleVars, ledgerVars, auxVars>>

\* one day passes; a dispatch pass is taken to run within one calendar date
NextDay ==
    /\ DayAfter(today) # today
    /\ d.pc # "uploading"
    /\ today' = DayAfter(today)
    /\ UNCHANGED <<quota, writable, api, ret, trackCalls>>
    /\ UNCHANGED <<uploadVars, cycleVars, ledgerVars, auxVars>>

(* --------------------------- upload dispatch --------------------------- *)

\* the batch of the videos 1..n, in rank order
BatchOf(n) == [i \in 1..n |-> i]

\* results["failed"].append({"file": ..., "title": ..., "error": ...})
Failure(file, error) == [file |-> file, error |-> error]

IdleDispatch ==
    [pc |-> "idle", input |-> <<>>, files |-> <<>>, i |-> 1,
     successful |-> <<>>, failed |-> <<>>, raised |-> FALSE,
     called |-> <<>>, allOk |-> TRUE, used0 |-> 0, day |-> "none",
     ndata |-> 0, qexAt |-> 0, stopAt |-> 0]

\* _upload_immediately, lines 431-482: the length check, the batch quota
\* check and the limiting of the batch
upload_start(q, day, video_files, video_data_list) ==
    LET total_uploads == Len(video_files)
        used_quota == UsedOn(q, day)
        remaining_quota == DailyQuotaLimit - used_quota
        effective_remaining == remaining_quota - ReserveQuota
        possible_uploads == TruncDiv(effective_remaining, CostVideosInsert)
        start == [IdleDispatch EXCEPT !.input = video_files,
                                      !.ndata = Len(video_data_list),
                                      !.used0 = used_quota, !.day = day]
    IN  IF Len(video_files) # Len(video_data_list)
        THEN \* "Video files and data lists must have the same length"
             [start EXCEPT !.pc = "returned"]
        ELSE IF check_quota_available(q, day, "videos.insert", total_uploads)
        THEN [start EXCEPT
                !.pc = IF total_uploads = 0 THEN "returned" ELSE "uploading",
                !.files = video_files]
        ELSE IF possible_uploads <= 0
        THEN [start EXCEPT
                !.pc = "returned",
                !.failed = [j \in 1..total_uploads |->
                              Failure(video_files[j], "Quota exceeded")]]
        ELSE \* the lists are cut to possible_uploads items and then indexed
             \* at possible_uploads..total_uploads-1: IndexError
             [start EXCEPT !.pc = "returned", !.raised = TRUE,
                           !.files = SubSeq(video_files, 1, possible_uploads)]

\* a caller dispatches a batch: schedule_uploads with auto_schedule off, or
\* the upload step of the cycle, uploader._upload_immediately(processed_videos,
\* download_data); the two lists may differ in length
UploadStart ==
    \E n \in 0..NumVideos, m \in 0..NumVideos :
        /\ d.pc # "uploading"
        /\ m \in {n, n - 1}
        /\ d' = upload_start(quota, today, BatchOf(n), BatchOf(m))
        /\ UNCHANGED published
        /\ UNCHANGED <<quotaVars, cycleVars, ledgerVars, auxVars>>

\* _upload_immediately, lines 485-511: one pass of the loop over the batch
upload_item(dd, r, outcome) ==
    LET file == dd.files[dd.i]
        next == [dd EXCEPT
                   !.i = @ + 1,
                   !.pc = IF dd.i = Len(dd.files) THEN "returned" ELSE "uploading",
                   !.called = IF r.called THEN Append(@, file) ELSE @,
                   !.allOk = @ /\ outcome = "ok",
                   !.qexAt = IF @ = 0 /\ r.called
                                /\ outcome \in {"quotaExceeded", "quotaRaised"}
                             THEN dd.i ELSE @]
    IN  IF r.id
        THEN [next EXCEPT !.successful = Append(@, file)]
        ELSE [next EXCEPT !.failed = Append(@, Failure(file, "Upload failed"))]

\* the videos whose publishes are counted: the first of every batch
Audited == {1}

Bump(n) == IF n < 2 THEN n + 1 ELSE 2

UploadItem ==
    \E outcome \in Outcomes :
        /\ d.pc = "uploading"
        /\ LET r == upload_video(quota, today, api, outcome, writable)
           IN  /\ quota' = r.quota
               /\ d' = upload_item(d, r, outcome)
               /\ published' = IF r.id /\ d.files[d.i] \in Audited
                               THEN [published EXCEPT ![d.files[d.i]] = Bump(@)]
                               ELSE published
        /\ UNCHANGED <<today, writable, api, ret, trackCalls>>
        /\ UNCHANGED <<cycleVars, ledgerVars, auxVars>>

(* ------------------------------- ledger -------------------------------- *)

\* usernames as the callers pass them, with and without the leading '@'
Usernames == {<<"a">>, <<"@", "a">>, <<"b">>}

\* if username.startswith('@'): username = username[1:]
clean_username(username) ==
    IF Len(username) > 0 /\ username[1] = "@" THEN Tail(username) ELSE username

Channels == {clean_username(u) : u \in Usernames}
\* the video ids the ledger operations are called with
LedgerVideos == {1, 2}
YoutubeIds == {"None", "yt"}

EmptyHistory == [c \in Channels |-> <<>>]

\* the ledger an earlier run left with video 1 of channel a recorded
RecordedHistory ==
    [EmptyHistory EXCEPT ![<<"a">>] = <<[video_id |-> 1, youtube_id |-> "yt"]>>]

\* the ledger an earlier run left: empty, or video 1 of channel a recorded
PriorHistories == {EmptyHistory, RecordedHistory}

\* is_video_uploaded(username, video_id)
is_video_uploaded(h, username, video_id) ==
    LET name == clean_username(username)
    IN  /\ name \in DOMAIN h
        /\ \E j \in 1..Len(h[name]) : h[name][j].video_id = video_id

\* filter_new_videos(username, videos)
filter_new_videos(h, username, videos) ==
    LET name == clean_username(username)
        keep(v) == ~is_video_uploaded(h, name, v)
    IN  SelectSeq(videos, keep)

\* a _save_history that reports success whatever the write did
_save_history_AlwaysTrue(file, h, w) ==
    [file |-> IF w THEN h ELSE file, value |-> TRUE]

\* _save_history: the file afterwards and the value returned
_save_history(file, h, w) ==
    IF w THEN [file |-> h, value |-> TRUE] ELSE [file |-> file, value |-> FALSE]

\* mark_video_uploaded(username, video_data, youtube_id)
mark_video_uploaded(h, file, username, video_id, youtube_id, w) ==
    LET name == clean_username(username)
        h1 == [h EXCEPT ![name] =
                 Append(@, [video_id |-> video_id, youtube_id |-> youtube_id])]
        saved == _save_history(file, h1, w)
    IN  [history |-> h1, file |-> saved.file, value |-> saved.value]

\* mark_videos_uploaded(username, videos, youtube_ids)
RECURSIVE mark_videos_uploaded(_, _, _, _, _, _)
mark_videos_uploaded(h, file, username, videos, youtube_ids, w) ==
    IF videos = <<>>
    THEN [history |-> h, file |-> file, value |-> TRUE]
    ELSE LET youtube_id == IF Len(youtube_ids) > 0 THEN Head(youtube_ids)
                           ELSE "None"
             one == mark_video_uploaded(h, file, username, Head(videos),
                                        youtube_id, w)
             rest == mark_videos_uploaded(one.history, one.file, username,
                       Tail(videos),
                       IF Len(youtube_ids) > 0 THEN Tail(youtube_ids) ELSE <<>>,
                       w)
         IN  [history |-> rest.history, file |-> rest.file,
              value |-> one.value /\ rest.value]

NoMark == [call |-> "none", username |-> <<>>, videos |-> <<>>,
           value |-> <<>>, len0 |-> 0]

MarkVideoUploaded ==
    \E u \in Usernames, v \in LedgerVideos, y \in YoutubeIds :
        /\ Len(history[clean_username(u)]) < MaxHistory
        /\ LET r == mark_video_uploaded(history, historyFile, u, v, y, writable)
           IN  /\ history' = r.history
               /\ historyFile' = r.file
               /\ markRet' = [call |-> "mark", username |-> u, videos |-> <<v>>,
                              value |-> <<r.value>>,
                              len0 |-> Len(history[clean_username(u)])]
        /\ UNCHANGED <<quotaVars, uploadVars, cycleVars, auxVars>>

MarkVideosUploaded ==
    \E u \in Usernames, v1 \in LedgerVideos, v2 \in LedgerVideos,
       ys \in {<<>>, <<"yt">>, <<"yt", "yt">>} :
        /\ Len(history[clean_username(u)]) + 2 <= MaxHistory
        /\ LET r == mark_videos_uploaded(history, historyFile, u, <<v1, v2>>,
                                         ys, writable)
           IN  /\ history' = r.history
               /\ historyFile' = r.file
               /\ markRet' = [call |-> "marks", username |-> u,
                              videos |-> <<v1, v2>>, value |-> <<r.value>>,
                              len0 |-> Len(history[clean_username(u)])]
        /\ UNCHANGED <<quotaVars, uploadVars, cycleVars, auxVars>>

FilterNewVideos ==
    \E u \in Usernames, n \in 0..Cardinality(LedgerVideos) :
        /\ markRet' = [call |-> "filter", username |-> u, videos |-> BatchOf(n),
                       value |-> filter_new_videos(history, u, BatchOf(n)),
                       len0 |-> Len(history[clean_username(u)])]
        /\ UNCHANGED <<history, historyFile>>
        /\ UNCHANGED <<quotaVars, uploadVars, cycleVars, auxVars>>

(* -------------------------- processing cycle --------------------------- *)

NoCycle == [ran |-> FALSE, total_processed |-> 0, total_uploaded |-> 0,
            total_failed |-> 0, error |-> "none", channels |-> {},
            handled |-> {}]

\* process_channels(config_data): TikTokScraper(config_data) is the first call
\* of the try block, and TikTokScraper.__init__(self) takes no argument: the
\* TypeError is caught by the handler of the whole function, which logs it and
\* returns the counters, all still 0. No channel is scraped, filtered or
\* uploaded, and no ledger or quota operation is reached. channels are the
\* active channels of config_data, handled the channels whose iteration of the
\* loop at line 173 was entered.
process_channels ==
    [ran |-> TRUE, total_processed |-> 0, total_uploaded |-> 0,
     total_failed |-> 0, error |-> "TypeError", channels |-> Channels,
     handled |-> {}]

ProcessChannels ==
    /\ d.pc # "uploading"
    /\ cycleRet' = process_channels
    /\ UNCHANGED <<quotaVars, uploadVars, ledgerVars, auxVars>>

(* --------------------------- specifications ---------------------------- *)

\* the state after construction: YouTubeUploader.__init__ and
\* VideoHistory.__init__ over the files an earlier run left
InitStores(records, histories) ==
    /\ today = FirstDay
    /\ \E r \in records :
          quota = [day \in Days |-> IF day = FirstDay THEN r ELSE NoRec]
    /\ writable = TRUE
    /\ api \in BOOLEAN
    /\ ret = NoRet
    /\ trackCalls = 0
    /\ d = IdleDispatch
    /\ published = [v \in Audited |-> 0]
    /\ cycleRet = NoCycle
    /\ history \in histories
    /\ historyFile = history
    /\ markRet = NoMark

\* no process runs next to the scheduler
NoWriters ==
    [active |-> {}, batch |-> FALSE, raced |-> FALSE,
     at |-> [w \in {1, 2} |->
               [pc |-> "idle", op |-> "none", count |-> 0, seen |-> 0]]]

\* the dashboard has made no call yet
IdleObserver == [pc |-> "idle", last |-> "none"]

\* no selection method of the analyzer has been called yet
NoAnalysis == [call |-> "none"]

\* no scheduling method of the uploader has been called yet
NoSchedule == [call |-> "none"]

\* no threshold has been calculated yet
NoThreshold == [call |-> "none", videos |-> <<>>, value |-> 0]

InitWith(records, histories) ==
    /\ InitStores(records, histories)
    /\ shutdown_requested = FALSE
    /\ writers = NoWriters
    /\ observer = IdleObserver
    /\ thresholdRet = NoThreshold
    /\ analyzerRet = NoAnalysis
    /\ scheduleRet = NoSchedule
    /\ ledgerOnDisk = TRUE

Init == InitWith(PriorRecords, {RecordedHistory})

\* the scheduler: cycles, dispatches and the quota bookkeeping around them
Next ==
    \/ UploadStart
    \/ UploadItem
    \/ NextDay
    \/ ProcessChannels

Spec == Init /\ [][Next]_vars

\* the quota store under direct calls of its two operations
InitQuota == InitWith(PriorRecords, {EmptyHistory})

NextQuota ==
    \/ CheckQuota
    \/ TrackApiUsage
    \/ UploadVideo
    \/ NextDay

SpecQuota == InitQuota /\ [][NextQuota]_vars

\* the ledger under direct calls of its operations
NextLedger ==
    \/ MarkVideoUploaded
    \/ MarkVideosUploaded
    \/ FilterNewVideos

InitLedger == InitWith({NoRec}, PriorHistories)

SpecLedger == InitLedger /\ [][NextLedger]_vars

\* signal_handler(sig, frame): SIGINT or SIGTERM arrives; d.stopAt keeps the
\* index of the item the running dispatch had not started yet
SignalHandler ==
    /\ ~shutdown_requested
    /\ shutdown_requested' = TRUE
    /\ d' = IF d.pc = "uploading" THEN [d EXCEPT !.stopAt = d.i] ELSE d
    /\ UNCHANGED published
    /\ UNCHANGED <<quotaVars, cycleVars, ledgerVars, writers, observerVars,
                   thresholdRet, plannerVars>>

\* a dispatch during which the process is asked to shut down
InitShutdown == InitWith({NoRec, PriorRec(4, 0)}, {RecordedHistory})

NextShutdown ==
    \/ UploadStart
    \/ UploadItem
    \/ SignalHandler

SpecShutdown == InitShutdown /\ [][NextShutdown]_vars

(* ------------------------ check-then-commit writers -------------------- *)

\* the operations a writer checks and commits
WriterOps == {"videos.insert", "videos.update"}

\* writer w calls check_quota_available(op, count); on True it goes on to
\* commit, and remembers the used value the check read
WriterCheck(w) ==
    \E op \in WriterOps, count \in 1..MaxCount :
        /\ w \in writers.active
        /\ writers.at[w].pc = "idle"
        /\ writers' = IF check_quota_available(quota, today, op, count)
                      THEN [writers EXCEPT !.at[w] =
                              [pc |-> "checked", op |-> op, count |-> count,
                               seen |-> UsedOn(quota, today)]]
                      ELSE writers
        /\ UNCHANGED <<shutdown_requested, observerVars, thresholdRet, plannerVars>>
        /\ UNCHANGED <<quotaVars, uploadVars, cycleVars, ledgerVars>>

\* writer w calls track_api_usage(op, count) for what it checked; batch keeps
\* that a commit was for more than one upload, raced that a commit was made
\* on a used value other than the one its check read
WriterTrack(w) ==
    /\ w \in writers.active
    /\ writers.at[w].pc = "checked"
    /\ trackCalls < MaxTrackCalls
    /\ LET me == writers.at[w]
           r == track_api_usage(quota, today, me.op, me.count, writable)
       IN  /\ quota' = r.quota
           /\ writers' = [writers EXCEPT
                  !.at[w] = NoWriters.at[w],
                  !.batch = @ \/ (me.op = "videos.insert" /\ me.count > 1),
                  !.raced = @ \/ UsedOn(quota, today) # me.seen]
    /\ trackCalls' = trackCalls + 1
    /\ UNCHANGED <<today, writable, api, ret>>
    /\ UNCHANGED <<shutdown_requested, observerVars, thresholdRet, plannerVars>>
    /\ UNCHANGED <<uploadVars, cycleVars, ledgerVars>>

\* the quota files the writers start on: none, 4 uploads and 10 updates
\* (used 6900), 5 uploads and 38 updates (used 9900)
WriterRecords == {NoRec, PriorRec(4, 10), PriorRec(5, 38)}

\* one writer, or two writers on the same file
InitWriters ==
    /\ InitStores(WriterRecords, {EmptyHistory})
    /\ shutdown_requested = FALSE
    /\ observer = IdleObserver
    /\ thresholdRet = NoThreshold
    /\ analyzerRet = NoAnalysis
    /\ scheduleRet = NoSchedule
    /\ ledgerOnDisk = TRUE
    /\ writers \in {[NoWriters EXCEPT !.active = a] : a \in {{1}, {1, 2}}}

NextWriters ==
    \/ \E w \in {1, 2} : WriterCheck(w)
    \/ \E w \in {1, 2} : WriterTrack(w)

SpecWriters == InitWriters /\ [][NextWriters]_vars

(* ----------------------------- write failures ------------------------- *)

\* the file system starts or stops refusing writes: open(..., 'w') or
\* json.dump raises, which _save_quota_usage and _save_history catch
DiskFault ==
    /\ writable' = ~writable
    /\ UNCHANGED <<today, quota, api, ret, trackCalls>>
    /\ UNCHANGED <<uploadVars, cycleVars, ledgerVars, auxVars>>

\* the quota store on a disk that may refuse writes
NextQuotaFaults ==
    \/ DiskFault
    \/ TrackApiUsage
    \/ UploadVideo

SpecQuotaFaults == InitQuota /\ [][NextQuotaFaults]_vars

\* the ledger on a disk that may refuse writes
NextLedgerFaults ==
    \/ DiskFault
    \/ MarkVideoUploaded

InitLedgerFaults == InitWith({NoRec}, {EmptyHistory}) /\ api

SpecLedgerFaults == InitLedgerFaults /\ [][NextLedgerFaults]_vars

(* -------------------------- dashboard observer ------------------------- *)

\* dashboard.get_youtube_api_quota(): reads the quota file when it exists and
\* copies today's record into the dashboard database
GetYoutubeApiQuota ==
    /\ observer.pc = "idle"
    /\ observer' = [observer EXCEPT !.last = "get_youtube_api_quota"]
    /\ UNCHANGED ledgerOnDisk
    /\ UNCHANGED <<quotaVars, uploadVars, cycleVars, ledgerVars>>
    /\ UNCHANGED <<shutdown_requested, writers, thresholdRet, plannerVars>>

\* the dashboard calls that construct VideoHistory()
ObserverCalls == {"get_dynamic_thresholds", "update_youtube_metrics"}

\* VideoHistory._load_history in the dashboard, up to os.path.exists: an
\* existing file is read, a missing one is about to be created
ObserverLoadHistory ==
    \E call \in ObserverCalls :
        /\ observer.pc = "idle"
        /\ observer' = [pc |-> IF ledgerOnDisk THEN "idle" ELSE "creating",
                        last |-> call]
        /\ UNCHANGED ledgerOnDisk
        /\ UNCHANGED <<quotaVars, uploadVars, cycleVars, ledgerVars>>
        /\ UNCHANGED <<shutdown_requested, writers, thresholdRet, plannerVars>>

\* VideoHistory._load_history in the dashboard, after os.path.exists returned
\* False: open(self.history_file, 'w') and json.dump({})
ObserverCreateHistory ==
    /\ observer.pc = "creating"
    /\ observer' = [observer EXCEPT !.pc = "idle"]
    /\ historyFile' = IF writable THEN EmptyHistory ELSE historyFile
    /\ ledgerOnDisk' = (ledgerOnDisk \/ writable)
    /\ UNCHANGED <<history, markRet>>
    /\ UNCHANGED <<quotaVars, uploadVars, cycleVars>>
    /\ UNCHANGED <<shutdown_requested, writers, thresholdRet, plannerVars>>

\* VideoHistory() in the scheduler process: _load_history creates the file
\* when it is missing and reads it otherwise
SchedulerLoadHistory ==
    /\ ~ledgerOnDisk
    /\ writable
    /\ historyFile' = EmptyHistory
    /\ history' = EmptyHistory
    /\ ledgerOnDisk' = TRUE
    /\ UNCHANGED <<markRet, observer>>
    /\ UNCHANGED <<quotaVars, uploadVars, cycleVars>>
    /\ UNCHANGED <<shutdown_requested, writers, thresholdRet, plannerVars>>

\* the scheduler records an upload in the ledger it has loaded
SchedulerMark ==
    /\ ledgerOnDisk
    /\ MarkVideoUploaded

\* the dashboard starts before or after the ledger file exists
InitObserver ==
    /\ InitStores({NoRec}, {EmptyHistory})
    /\ shutdown_requested = FALSE
    /\ writers = NoWriters
    /\ observer = IdleObserver
    /\ thresholdRet = NoThreshold
    /\ analyzerRet = NoAnalysis
    /\ scheduleRet = NoSchedule
    /\ ledgerOnDisk \in BOOLEAN

NextObserver ==
    \/ GetYoutubeApiQuota
    \/ ObserverLoadHistory
    \/ ObserverCreateHistory
    \/ SchedulerLoadHistory
    \/ SchedulerMark
    \/ UploadVideo

SpecObserver == InitObserver /\ [][NextObserver]_vars

(* ----------------------- properties: quota store ----------------------- *)

\* the sum of the per-operation costs of a date record
BreakdownCost(rec) ==
    rec.ops["videos.insert"].cost + rec.ops["videos.list"].cost
    + rec.ops["videos.update"].cost + rec.ops["playlistItems.insert"].cost
    + rec.ops["channels.list"].cost

\* the last call was track_api_usage('videos.insert', N), made right after
\* check_quota_available('videos.insert', N) returned True
TrackedAfterCheck ==
    /\ ret.call = "track"
    /\ ret.checked
    /\ ret.op = "videos.insert"

\* C3, as stated: after check_quota_available('videos.insert', N) returns True
\* and track_api_usage('videos.insert', N) follows, used is the previous used
\* plus N * 1600 and remaining is limit - used
C3_RemainingIsLimitMinusUsed ==
    TrackedAfterCheck =>
        /\ quota[ret.day].used = ret.used0 + ret.count * CostVideosInsert
        /\ quota[ret.day].remaining = DailyQuotaLimit - quota[ret.day].used

\* C3, amended: after check_quota_available('videos.insert', N) returns True
\* and track_api_usage('videos.insert', N) follows, used is the previous used
\* plus N * 1600 and remaining is max(0, limit - used), which is limit - used
\* whenever N * 1600 fits in what was left of the limit
C3_RemainingIsClamped ==
    TrackedAfterCheck =>
        /\ ret.value
        /\ quota[ret.day].used = ret.used0 + ret.count * CostVideosInsert
        /\ quota[ret.day].remaining
              = Max(0, DailyQuotaLimit - quota[ret.day].used)
        /\ (ret.count * CostVideosInsert <= DailyQuotaLimit - ret.used0
              => quota[ret.day].remaining
                    = DailyQuotaLimit - quota[ret.day].used)

\* a checked batch of 3 uploads was tracked and took used past the limit
C3_Witness ==
    /\ TrackedAfterCheck
    /\ ret.count = 3
    /\ quota[ret.day].used > DailyQuotaLimit
    /\ quota[ret.day].remaining = 0

C8_CheckQuotaContract ==
    ret.call = "check" =>
        ret.value =
            IF ret.op = "videos.insert"
            THEN DailyQuotaLimit - ret.used0 - ReserveQuota >= CostVideosInsert
            ELSE QUOTA_COSTS(ret.op) * ret.count <= DailyQuotaLimit - ret.used0

\* the check returned True for 3 uploads although only 1 is affordable
C8_Witness ==
    /\ ret.call = "check"
    /\ ret.op = "videos.insert"
    /\ ret.count = 3
    /\ ret.value
    /\ ret.used0 = 6400

(* --------------------- properties: upload dispatch --------------------- *)

\* the quota left for uploads when the dispatch started
EffectiveAtStart == DailyQuotaLimit - d.used0 - ReserveQuota

\* the dispatch got one data record per file
Matched == d.ndata = Len(d.input)

\* the failed list holds this item with this error
HasFailed(file, error) ==
    \E j \in 1..Len(d.failed) : d.failed[j] = Failure(file, error)

\* C1, as stated: no item is published more than once, and an item the ledger
\* records is removed from the candidates and so is never dispatched
C1_PublishedAtMostOnce ==
    /\ \A v \in Audited : published[v] <= 1
    /\ \A j \in 1..Len(d.files) :
          ~is_video_uploaded(history, <<"a">>, d.files[j])

\* C5: a publish call is made only when limit - used - reserve >= 1600 at the
\* moment of the call; a publish commit never leaves used above limit -
\* reserve; and a dispatch that starts with used = 8500 of 10000 makes no
\* publish call, commits nothing, reports every item failed with the quota
\* error and leaves used unchanged
C5_ReserveAdmission ==
    /\ [][(d.pc = "uploading" /\ Len(d'.called) > Len(d.called))
            => DailyQuotaLimit - UsedOn(quota, today) - ReserveQuota
                  >= CostVideosInsert]_vars
    /\ [][(d.pc = "uploading" /\ Len(d'.successful) > Len(d.successful))
            => UsedOn(quota', today) <= DailyQuotaLimit - ReserveQuota]_vars
    /\ [](d.pc = "returned" /\ Matched /\ d.used0 = 8500
            => /\ d.called = <<>>
               /\ d.successful = <<>>
               /\ d.failed = [j \in 1..Len(d.input) |->
                                Failure(d.input[j], "Quota exceeded")]
               /\ UsedOn(quota, d.day) = 8500)

\* a dispatch of 3 items at used = 8500 returned with all 3 failed
C5_Witness ==
    /\ d.pc = "returned"
    /\ Matched
    /\ d.used0 = 8500
    /\ Len(d.input) = 3
    /\ Len(d.failed) = 3
    /\ api

\* C6, as stated: when only k of the n items are affordable, 1 <= k < n, the
\* dispatch makes publish calls for exactly the first k items, puts the other
\* n - k in the failed list with the quota error, and does not fail as a whole
C6_PartialBatch ==
    LET n == Len(d.input)
        k == TruncDiv(EffectiveAtStart, CostVideosInsert)
    IN  (d.pc = "returned" /\ Matched /\ api /\ 1 <= k /\ k < n)
            => /\ d.called = SubSeq(d.input, 1, k)
               /\ \A j \in (k + 1)..n : HasFailed(d.input[j], "Quota exceeded")
               /\ ~d.raised

\* C7: when n * 1600 <= limit - used - reserve and every publish succeeds, the
\* dispatch commits all n items in input order, every per-item check passes,
\* and used grows by exactly n * 1600
C7_FullBatch ==
    LET n == Len(d.input)
    IN  (/\ d.pc = "returned" /\ Matched /\ api /\ d.allOk
         /\ n >= 1 /\ n * CostVideosInsert <= EffectiveAtStart)
            => /\ d.successful = d.input
               /\ d.called = d.input
               /\ d.failed = <<>>
               /\ ~d.raised
               /\ UsedOn(quota, d.day) = d.used0 + n * CostVideosInsert

\* 5 items at used = 0: all 5 committed and used is 8000
C7_Witness ==
    /\ d.pc = "returned"
    /\ d.allOk
    /\ api
    /\ d.used0 = 0
    /\ d.successful = BatchOf(5)
    /\ UsedOn(quota, d.day) = 8000

\* one pass of the loop ended with the item in the failed list
FailedStep ==
    /\ d.pc = "uploading"
    /\ Len(d'.failed) = Len(d.failed) + 1
    /\ d'.failed[Len(d'.failed)].file = d.files[d.i]

\* one pass of the loop left the successful list as it was
NotCommittedStep ==
    /\ d.pc = "uploading"
    /\ d'.i = d.i + 1
    /\ d'.successful = d.successful

C10_StopAfterQuotaExceeded ==
    d.qexAt > 0 =>
        /\ Len(d.called) <= d.qexAt
        /\ \A j \in 1..Len(d.called) : d.called[j] \in
              {d.files[i] : i \in 1..d.qexAt}
        /\ ~d.raised
        /\ d.pc = "returned" =>
              /\ \A j \in d.qexAt..Len(d.files) :
                    HasFailed(d.files[j], "Upload failed")
              /\ Len(d.successful) + Len(d.failed) = Len(d.files)

(* -------------------------- properties: ledger ------------------------- *)

\* C2, as stated: no two entries of one channel share a video id, and a
\* record of an id the channel already holds is reported as a duplicate and
\* leaves the channel's count where it was
C2_UniqueVideoIds ==
    /\ \A c \in Channels : \A i, j \in 1..Len(history[c]) :
          history[c][i].video_id = history[c][j].video_id => i = j
    /\ (markRet.call = "mark" /\ markRet.len0 > 0
        /\ Len(history[clean_username(markRet.username)]) > markRet.len0)
          => \A i \in 1..markRet.len0 :
                history[clean_username(markRet.username)][i].video_id
                   # markRet.videos[1]

(* ------------------------- properties: shutdown ------------------------ *)

\* C11, as stated: when shutdown is requested while a dispatch is between two
\* items, no further item of that batch is published, and the items already
\* published keep their quota usage
C11_StopOnShutdown ==
    d.stopAt > 1 =>
        /\ \A j \in 1..Len(d.successful) : d.successful[j] < d.files[d.stopAt]
        /\ UsedOn(quota, d.day)
              >= d.used0 + Len(d.successful) * CostVideosInsert

(* ------------------------- properties: writers ------------------------- *)

\* some date's used is above the daily limit
Overspent == \E day \in Days : UsedOn(quota, day) > DailyQuotaLimit

\* C12, as stated: a single writer that checks and then commits never takes
\* used above the limit
C12_SingleWriterWithinLimit ==
    Cardinality(writers.active) = 1 => ~Overspent

\* C12, amended: a single writer that checks and then commits never takes
\* used above the limit as long as each videos.insert commit is for one
\* upload; and without such a batch commit used goes above the limit only
\* when a second writer committed between a writer's check and its commit
C12_SingleWriterWithinLimitUnlessBatch ==
    /\ (Cardinality(writers.active) = 1 /\ ~writers.batch) => ~Overspent
    /\ (Overspent /\ ~writers.batch) =>
          (Cardinality(writers.active) = 2 /\ writers.raced)

\* two writers passed the check on used = 6900 for one upload each and both
\* committed: used is 10100
C12_Witness ==
    /\ writers.active = {1, 2}
    /\ ~writers.batch
    /\ writers.raced
    /\ trackCalls = 2
    /\ UsedOn(quota, today) = 10100

(* ------------------------- properties: observer ------------------------ *)

\* a step of the dashboard process
ObserverStep == observer' # observer

\* C13, as stated: no step of the dashboard observer writes, creates or
\* truncates the ledger file or the quota file, whatever the scheduler does
\* in between and whether or not the files exist
C13_ObserverReadOnly ==
    [][ObserverStep => /\ historyFile' = historyFile
                       /\ ledgerOnDisk' = ledgerOnDisk
                       /\ quota' = quota]_vars

(* --------------------- properties: quota over time --------------------- *)

\* C14: within one calendar date the persisted used of that date never
\* decreases, whatever track_api_usage commits and quotaExceeded handlings of
\* upload_video follow one another
C14_UsedNeverDecreases ==
    [][\A day \in Days : UsedOn(quota', day) >= UsedOn(quota, day)]_vars

\* after a track_api_usage commit, upload_video's quotaExceeded handler
\* raised used to the limit
C14_Witness ==
    /\ ret.call = "upload"
    /\ ret.op = "quotaRaised"
    /\ trackCalls = 2
    /\ ret.used0 > 0
    /\ ret.used0 < DailyQuotaLimit
    /\ quota[ret.day].used = DailyQuotaLimit

(* ----------------------- properties: write failures -------------------- *)

\* a step that is one call of track_api_usage
TrackStep == trackCalls' = trackCalls + 1 /\ ret'.call = "track"

\* C15, as stated: track_api_usage returns False when the write of the quota
\* file fails and True otherwise
C15_TrackReportsWriteFailure ==
    [][TrackStep => (ret'.value <=> writable)]_vars

\* a step that is one call of mark_video_uploaded
MarkStep == markRet' # markRet /\ markRet'.call = "mark"

\* C18: when mark_video_uploaded returns True the ledger file holds exactly
\* the in-memory history, the new entry included; when the write fails it
\* returns False
C18_MarkReportsWhatWasWritten ==
    /\ [][(MarkStep /\ ~writable) => markRet'.value = <<FALSE>>]_vars
    /\ [][(MarkStep /\ markRet'.value = <<TRUE>>)
            => /\ historyFile' = history'
               /\ LET name == clean_username(markRet'.username)
                  IN  /\ Len(history'[name]) = Len(history[name]) + 1
                      /\ history'[name][Len(history'[name])].video_id
                            = markRet'.videos[1]]_vars

\* a second record of channel b returned True: the file holds both entries
C18_Witness ==
    /\ markRet.call = "mark"
    /\ markRet.value = <<TRUE>>
    /\ markRet.len0 = 1
    /\ markRet.username = <<"b">>
    /\ Len(history[<<"b">>]) = 2
    /\ historyFile = history

(* --------------------- properties: processing cycle -------------------- *)

\* C16, as stated: whatever fails while a channel is handled is caught within
\* that channel's iteration, so a cycle that ran has gone through every
\* active channel
C16_EveryChannelProcessed ==
    cycleRet.ran =>
        /\ cycleRet.handled = cycleRet.channels
        /\ cycleRet.error = "none"

(* ----------------------- properties: day rollover ---------------------- *)

\* C17: a check on a date that has no record yet counts used as 0, whatever
\* earlier dates used, so it passes; and a commit changes the record of the
\* current date only
C17_DayRollover ==
    /\ []((ret.call = "check" /\ ~quota[ret.day].present)
            => (ret.used0 = 0 /\ ret.value))
    /\ [][\A day \in Days \ {today} : quota'[day] = quota[day]]_vars

\* on the second date, after the first date used 8500: the check of one
\* upload passed and the commit made a record with used 1600, the first
\* date's record still at 8500
C17_Witness ==
    /\ ret.call = "track"
    /\ ret.checked
    /\ ret.op = "videos.insert"
    /\ ret.day = "2024-01-02"
    /\ ret.used0 = 0
    /\ quota["2024-01-02"].used = CostVideosInsert
    /\ quota[FirstDay].used = 8500

(* ------------------- content analyzer: view threshold ----------------- *)

\* config.CONTENT_FILTERS["min_views"]: the static default floor
MinViews == 1000
\* avg_views < 20000: a small channel
SmallChannelLimit == 20000
\* avg_views < 100000: a medium channel
MediumChannelLimit == 100000
\* min_bound of a small, a medium and a large channel
MinBoundSmall == 3000
MinBoundMedium == 8000
MinBoundLarge == 15000
\* max_bound
MaxBound == 500000

\* the playCount values of a video: negative, missing (0), and counts on
\* both sides of every class limit and bound
ViewValues == {-1000, 0, 1000, 3000, 11000, 30000, 200000, 1000000}

\* the list of the documented example
ExampleViews == <<1000, 2000, 3000, 4000, 100000>>

\* the lists handed to calculate_dynamic_view_threshold: the int(playCount)
\* of each video, in the order of the list
ViewLists ==
    UNION {[1..n -> ViewValues] : n \in 0..MaxViews} \cup {ExampleViews}

Min(a, b) == IF a <= b THEN a ELSE b

\* sum(view_counts)
RECURSIVE SumSeq(_)
SumSeq(s) == IF s = <<>> THEN 0 ELSE Head(s) + SumSeq(Tail(s))

\* view_counts.sort(): ascending, by insertion
RECURSIVE InsertSorted(_, _)
InsertSorted(v, s) ==
    IF s = <<>> THEN <<v>>
    ELSE IF v <= Head(s) THEN <<v>> \o s
    ELSE <<Head(s)>> \o InsertSorted(v, Tail(s))

RECURSIVE SortAscending(_)
SortAscending(s) ==
    IF s = <<>> THEN <<>> ELSE InsertSorted(Head(s), SortAscending(Tail(s)))

\* the (sum, len) of the lists above whose int((sum / len) * 0.7) in IEEE-754
\* double precision is one below the exact floor of 7 * sum / (10 * len): the
\* double 0.7 is below 7/10, and the rounded product stays below the integer
\* (int(11000 * 0.7) is 7699, int(22000 * 0.7) is 15399)
DoubleLow07 ==
    {<<11000, 1>>, <<22000, 2>>, <<33000, 3>>, <<41000, 2>>, <<43000, 4>>,
     <<44000, 4>>, <<45000, 4>>, <<63000, 3>>, <<82000, 4>>, <<91000, 4>>,
     <<93000, 4>>, <<110000, 5>>, <<1002000, 3>>, <<1014000, 3>>,
     <<1041000, 3>>, <<1401000, 4>>, <<1403000, 4>>, <<1411000, 4>>,
     <<1430000, 4>>, <<2001000, 3>>}

\* int((num / den) * 0.7) as the double-precision product gives it
IntTimes07(num, den) ==
    (7 * num) \div (10 * den) - (IF <<num, den>> \in DoubleLow07 THEN 1 ELSE 0)

\* int(x * 0.8): equal to the exact floor for every count above
IntTimes08(x) == (8 * x) \div 10

\* the body of calculate_dynamic_view_threshold with the clamp left out
calculate_dynamic_view_threshold_Unclamped(videos) ==
    LET positive == SelectSeq(videos, LAMBDA v : v > 0)
        view_counts == SortAscending(positive)
        n == Len(view_counts)
        total == SumSeq(view_counts)
    IN  IF videos = <<>> \/ n = 0 THEN MinViews
        ELSE IF total < SmallChannelLimit * n THEN IntTimes07(total, n)
        ELSE IF total < MediumChannelLimit * n
             THEN IntTimes08(view_counts[(n \div 2) + 1])
        ELSE IntTimes07(view_counts[((3 * n) \div 4) + 1], 1)

\* the body of calculate_dynamic_view_threshold with the median taken at
\* index (len - 1) // 2
calculate_dynamic_view_threshold_LowerMedian(videos) ==
    LET positive == SelectSeq(videos, LAMBDA v : v > 0)
        view_counts == SortAscending(positive)
        n == Len(view_counts)
        total == SumSeq(view_counts)
    IN  IF videos = <<>> \/ n = 0 THEN MinViews
        ELSE IF total < SmallChannelLimit * n
             THEN Max(MinBoundSmall, Min(IntTimes07(total, n), MaxBound))
        ELSE IF total < MediumChannelLimit * n
             THEN Max(MinBoundMedium,
                      Min(IntTimes08(view_counts[((n - 1) \div 2) + 1]),
                          MaxBound))
        ELSE Max(MinBoundLarge,
                 Min(IntTimes07(view_counts[((3 * n) \div 4) + 1], 1),
                     MaxBound))

\* ContentAnalyzer.calculate_dynamic_view_threshold(videos, channel_name),
\* videos given as the int(playCount) of each video. Python's list indices
\* start at 0, a sequence's at 1.
calculate_dynamic_view_threshold(videos) ==
    LET positive == SelectSeq(videos, LAMBDA v : v > 0)
        view_counts == SortAscending(positive)
        n == Len(view_counts)
        total == SumSeq(view_counts)
        median_views == view_counts[(n \div 2) + 1]
        percentile_75 == view_counts[((3 * n) \div 4) + 1]
    IN  IF videos = <<>> \/ n = 0 THEN MinViews
        ELSE IF total < SmallChannelLimit * n
             THEN Max(MinBoundSmall, Min(IntTimes07(total, n), MaxBound))
        ELSE IF total < MediumChannelLimit * n
             THEN Max(MinBoundMedium, Min(IntTimes08(median_views), MaxBound))
        ELSE Max(MinBoundLarge, Min(IntTimes07(percentile_75, 1), MaxBound))

\* the call of calculate_dynamic_view_threshold on the list of videos the
\* analyzer was handed
CalculateThreshold ==
    /\ thresholdRet.call = "none"
    /\ thresholdRet' =
           [thresholdRet EXCEPT
               !.call = "threshold",
               !.value = calculate_dynamic_view_threshold(thresholdRet.videos)]
    /\ UNCHANGED <<quotaVars, uploadVars, cycleVars, ledgerVars>>
    /\ UNCHANGED <<shutdown_requested, writers, observerVars, plannerVars>>

\* the analyzer is handed any of the lists
InitThreshold ==
    /\ InitStores({NoRec}, {EmptyHistory})
    /\ shutdown_requested = FALSE
    /\ writers = NoWriters
    /\ observer = IdleObserver
    /\ ledgerOnDisk = TRUE
    /\ thresholdRet \in {[NoThreshold EXCEPT !.videos = videos] :
                            videos \in ViewLists}
    /\ analyzerRet = NoAnalysis
    /\ scheduleRet = NoSchedule

NextThreshold == CalculateThreshold

SpecThreshold == InitThreshold /\ [][NextThreshold]_vars

(* ------------------------ the threshold's contract -------------------- *)

\* the positive counts of the last call's list
PositiveCounts ==
    {i \in 1..Len(thresholdRet.videos) : thresholdRet.videos[i] > 0}

\* their sum
RECURSIVE SumOver(_, _)
SumOver(s, idx) ==
    IF idx = {} THEN 0
    ELSE LET i == CHOOSE j \in idx : TRUE IN s[i] + SumOver(s, idx \ {i})

PositiveSum == SumOver(thresholdRet.videos, PositiveCounts)

\* the class the channel falls in, by its average positive count
ChannelClass ==
    IF PositiveSum < SmallChannelLimit * Cardinality(PositiveCounts)
    THEN "small"
    ELSE IF PositiveSum < MediumChannelLimit * Cardinality(PositiveCounts)
         THEN "medium"
         ELSE "large"

\* the lower bound of the class
MinBoundOfClass ==
    CASE ChannelClass = "small" -> MinBoundSmall
      [] ChannelClass = "medium" -> MinBoundMedium
      [] OTHER -> MinBoundLarge

RankedCount(k) ==
    LET s == thresholdRet.videos
    IN  CHOOSE v \in {s[i] : i \in PositiveCounts} :
            /\ Cardinality({i \in PositiveCounts : s[i] < v}) <= k
            /\ Cardinality({i \in PositiveCounts : s[i] <= v}) > k

\* the raw value of the reference algorithm as a fraction num / den:
\* 0.7 * average, 0.8 * median or 0.7 * p75
RawNum ==
    LET n == Cardinality(PositiveCounts)
    IN  CASE ChannelClass = "small" -> 7 * PositiveSum
          [] ChannelClass = "medium" -> 8 * RankedCount(n \div 2)
          [] OTHER -> 7 * RankedCount((3 * n) \div 4)

RawDen ==
    IF ChannelClass = "small" THEN 10 * Cardinality(PositiveCounts) ELSE 10

\* C20 as stated: the result is clamp(raw, minBound, 500000) of the raw value
\* 0.7 * average, 0.8 * median or 0.7 * p75 itself (the static default floor
\* when no count is positive)
C20_EqualsReference ==
    thresholdRet.call = "threshold"
        => IF PositiveCounts = {} THEN thresholdRet.value = MinViews
           ELSE IF RawNum <= MinBoundOfClass * RawDen
                THEN thresholdRet.value = MinBoundOfClass
           ELSE IF RawNum >= MaxBound * RawDen
                THEN thresholdRet.value = MaxBound
           ELSE thresholdRet.value * RawDen = RawNum

\* int() of the double-precision product behind the raw value
RawTruncated ==
    LET n == Cardinality(PositiveCounts)
    IN  CASE ChannelClass = "small" ->
               IF (7 * PositiveSum) % (10 * n) = 0
                  /\ <<PositiveSum, n>> \in DoubleLow07
               THEN (7 * PositiveSum) \div (10 * n) - 1
               ELSE (7 * PositiveSum) \div (10 * n)
          [] ChannelClass = "medium" -> (8 * RankedCount(n \div 2)) \div 10
          [] OTHER ->
               LET p75 == RankedCount((3 * n) \div 4)
               IN  IF <<p75, 1>> \in DoubleLow07
                   THEN (7 * p75) \div 10 - 1
                   ELSE (7 * p75) \div 10

\* C20, amended: the result is clamp(raw, minBound, 500000) of the raw value
\* truncated to an integer after the double-precision product (the static
\* default floor when no count is positive); the documented example is of
\* the medium class and gives 8000
C20_EqualsTruncatedReference ==
    /\ thresholdRet.call = "threshold"
        => IF PositiveCounts = {} THEN thresholdRet.value = MinViews
           ELSE thresholdRet.value =
                    Max(MinBoundOfClass, Min(RawTruncated, MaxBound))
    /\ (thresholdRet.call = "threshold" /\ thresholdRet.videos = ExampleViews)
        => (ChannelClass = "medium" /\ thresholdRet.value = 8000)

\* the documented example: medium class, median 3000, threshold 8000
C20_Witness ==
    /\ thresholdRet.call = "threshold"
    /\ thresholdRet.videos = ExampleViews
    /\ ChannelClass = "medium"
    /\ RankedCount(2) = 3000
    /\ thresholdRet.value = MinBoundMedium

(* --------------------- content analyzer: the score -------------------- *)

\* a video as the analyzer reads it: video.duration, stats.playCount,
\* stats.diggCount, stats.commentCount, stats.shareCount, createTime (timeOk:
\* int() accepts it) and desc, the caption as its characters
Video(duration, playCount, diggCount, commentCount, shareCount, createTime, timeOk, desc) ==
    [duration |-> duration, playCount |-> playCount, diggCount |-> diggCount,
     commentCount |-> commentCount, shareCount |-> shareCount,
     createTime |-> createTime, timeOk |-> timeOk, desc |-> desc]

\* a score is the number fifths / 5 + 6 * e / v, with v > 0
Score(fifths, e, v) == [fifths |-> fifths, e |-> e, v |-> v]

\* a >= b, a = b and a > b on scores
ScoreGE(a, b) ==
    (a.fifths - b.fifths) * a.v * b.v + 30 * (a.e * b.v - b.e * a.v) >= 0
ScoreEq(a, b) ==
    (a.fifths - b.fifths) * a.v * b.v + 30 * (a.e * b.v - b.e * a.v) = 0
ScoreGT(a, b) == ScoreGE(a, b) /\ ~ScoreEq(a, b)

\* math.log10(x) for x a power of ten
RECURSIVE Log10(_)
Log10(x) == IF x <= 1 THEN 0 ELSE 1 + Log10(x \div 10)

\* the values random.uniform(0.1, 1.0) is drawn from: 0.2, 0.6 and 1.0
RandomFifths == {1, 3, 5}

\* min(5, max(0, create_time / 1000000000)), for a create_time that is a
\* multiple of 200000000
TimeScore(create_time) ==
    Score(Min(25, Max(0, create_time \div 200000000)), 0, 1)

\* calculate_engagement_score with the division guarded by max(views, 1)
\* in place of the return of 0
calculate_engagement_score_MaxViews(video, draw) ==
    LET views == video.playCount
        likes == video.diggCount
        comments == video.commentCount
        shares == video.shareCount
    IN  IF views = 0 /\ likes = 0 /\ comments = 0 /\ shares = 0
        THEN IF video.timeOk THEN TimeScore(video.createTime)
             ELSE Score(draw, 0, 1)
        ELSE Score(2 * Log10(views + 1), likes + comments + shares,
                   Max(views, 1))

\* ContentAnalyzer.calculate_engagement_score(video); draw is the value of
\* random.uniform when it is called. The view count is one less than a power
\* of ten, so that log10(views + 1) is an integer and
\* 0.4 * log_views + 0.6 * engagement_rate * 10 is
\* 2 * log_views / 5 + 6 * (likes + comments + shares) / views.
calculate_engagement_score(video, draw) ==
    LET views == video.playCount
        likes == video.diggCount
        comments == video.commentCount
        shares == video.shareCount
    IN  IF views = 0 /\ likes = 0 /\ comments = 0 /\ shares = 0
        THEN IF video.timeOk THEN TimeScore(video.createTime)
             ELSE Score(draw, 0, 1)
        ELSE IF views = 0 THEN Score(0, 0, 1)
        ELSE Score(2 * Log10(views + 1), likes + comments + shares, views)

\* the captions: plain, with an excluded hashtag in capitals, with a keyword
\* and with a hashtag
CaptionPlain == <<"o", "k">>
CaptionAd == <<"s", "e", "e", " ", "#", "A", "d">>
CaptionSpam == <<"S", "p", "a", "m">>
CaptionFyp == <<"#", "f", "y", "p">>

\* the videos a score is calculated for
ScoreVideos ==
    {Video(30, views, likes, comments, shares, time, timeOk, CaptionPlain) :
        views \in {0, 9, 9999}, likes \in {0, 1, 100}, comments \in {0, 2},
        shares \in {0, 3}, time \in {1000000000, 1600000000},
        timeOk \in BOOLEAN}

\* one call of calculate_engagement_score on the video the analyzer was
\* handed
CalculateScore ==
    /\ analyzerRet.call = "none"
    /\ \E draw \in RandomFifths :
        /\ (analyzerRet.video.timeOk
            \/ analyzerRet.video.playCount + analyzerRet.video.diggCount
               + analyzerRet.video.commentCount
               + analyzerRet.video.shareCount > 0) => draw = 1
        /\ analyzerRet' =
               [analyzerRet EXCEPT
                   !.call = "score",
                   !.score = calculate_engagement_score(analyzerRet.video,
                                                        draw)]
    /\ UNCHANGED <<quotaVars, uploadVars, cycleVars, ledgerVars>>
    /\ UNCHANGED <<shutdown_requested, writers, observerVars, thresholdRet,
                   scheduleRet>>

\* the analyzer is handed any of the videos
InitScore ==
    /\ InitStores({NoRec}, {EmptyHistory})
    /\ shutdown_requested = FALSE
    /\ writers = NoWriters
    /\ observer = IdleObserver
    /\ ledgerOnDisk = TRUE
    /\ thresholdRet = NoThreshold
    /\ scheduleRet = NoSchedule
    /\ analyzerRet \in {[call |-> "none", video |-> video,
                         score |-> Score(0, 0, 1)] : video \in ScoreVideos}

NextScore == CalculateScore

SpecScore == InitScore /\ [][NextScore]_vars

(* ------------------ content analyzer: the content policy -------------- *)

\* videos in a list handed to filter_by_content_policy / select_top_videos
MaxListed == 3
\* the top_n argument of select_top_videos is 0..MaxTopN
MaxTopN == 2

\* CONTENT_FILTERS["min_duration"] and ["max_duration"]
MinDuration == 3
MaxDuration == 60
\* CONTENT_FILTERS["min_engagement_rate"]: 0.5, as a score
MinEngagementRate == Score(0, 1, 12)
\* CONTENT_FILTERS["exclude_hashtags"]
ExcludeHashtags ==
    << <<"#", "a", "d">>,
       <<"#", "s", "p", "o", "n", "s", "o", "r", "e", "d">>,
       <<"#", "p", "r", "o", "m", "o", "t", "i", "o", "n">> >>

\* CONTENT_FILTERS as shipped: no excluded keyword, no required hashtag
ShippedFilters ==
    [min_duration |-> MinDuration, max_duration |-> MaxDuration,
     min_engagement_rate |-> MinEngagementRate,
     exclude_hashtags |-> ExcludeHashtags,
     exclude_keywords |-> <<>>, require_hashtags |-> <<>>]

\* CONTENT_FILTERS with the two lists the file invites the user to fill in
ConfiguredFilters ==
    {[ShippedFilters EXCEPT !.exclude_keywords = k, !.require_hashtags = r] :
        k \in {<<>>, << <<"s", "p", "a", "m">> >>},
        r \in {<<>>, << CaptionFyp >>}}

\* str.lower() on the letters of the captions
LowerChar(c) ==
    CASE c = "A" -> "a"
      [] c = "S" -> "s"
      [] OTHER -> c

Lower(text) == [i \in 1..Len(text) |-> LowerChar(text[i])]

\* needle in text: a substring match
Contains(text, needle) ==
    \E i \in 1..(Len(text) - Len(needle) + 1) :
        SubSeq(text, i, i + Len(needle) - 1) = needle

\* any(tag.lower() in caption.lower() for tag in tags)
AnyTagIn(tags, caption) ==
    \E t \in 1..Len(tags) : Contains(Lower(caption), Lower(tags[t]))

\* the positions 1..n as a list
Positions(n) == [i \in 1..n |-> i]

\* the view counts of a list of videos
PlayCounts(videos) == [i \in 1..Len(videos) |-> videos[i].playCount]

\* one pass of the loop of filter_by_content_policy: the video is kept
PassesPolicy(video, filters, dynamic_view_threshold) ==
    /\ ~(video.duration < filters.min_duration
         \/ video.duration > filters.max_duration)
    /\ ~(video.playCount < dynamic_view_threshold)
    /\ ScoreGE(calculate_engagement_score(video, 1),
               filters.min_engagement_rate)
    /\ ~AnyTagIn(filters.exclude_hashtags, video.desc)

\* ContentAnalyzer.filter_by_content_policy(videos, channel_name) under the
\* given CONTENT_FILTERS: the positions of the videos kept, in input order
filter_by_content_policy(videos, filters) ==
    LET dynamic_view_threshold ==
            calculate_dynamic_view_threshold(PlayCounts(videos))
    IN  SelectSeq(Positions(Len(videos)),
                  LAMBDA i : PassesPolicy(videos[i], filters,
                                          dynamic_view_threshold))

\* the videos the policy is applied to
PolicyVideos ==
    {Video(30, 9999, 100, 0, 0, 1600000000, TRUE, c) :
        c \in {CaptionPlain, CaptionAd, CaptionSpam, CaptionFyp}}
    \cup {Video(30, 9, 1, 0, 0, 1600000000, TRUE, CaptionPlain),
          Video(61, 9999, 100, 0, 0, 1600000000, TRUE, CaptionPlain)}

\* one call of filter_by_content_policy on the list the analyzer was handed
FilterByContentPolicy ==
    /\ analyzerRet.call = "none"
    /\ analyzerRet' =
           [analyzerRet EXCEPT
               !.call = "policy",
               !.kept = filter_by_content_policy(analyzerRet.videos,
                                                 analyzerRet.filters)]
    /\ UNCHANGED <<quotaVars, uploadVars, cycleVars, ledgerVars>>
    /\ UNCHANGED <<shutdown_requested, writers, observerVars, thresholdRet,
                   scheduleRet>>

\* the analyzer is handed any list of the videos under any of the configured
\* filters
InitPolicy ==
    /\ InitStores({NoRec}, {EmptyHistory})
    /\ shutdown_requested = FALSE
    /\ writers = NoWriters
    /\ observer = IdleObserver
    /\ ledgerOnDisk = TRUE
    /\ thresholdRet = NoThreshold
    /\ scheduleRet = NoSchedule
    /\ analyzerRet \in
           {[call |-> "none", videos |-> videos, filters |-> filters,
             kept |-> <<>>] :
                videos \in UNION {[1..n -> PolicyVideos] : n \in 0..MaxListed},
                filters \in ConfiguredFilters}

NextPolicy == FilterByContentPolicy

SpecPolicy == InitPolicy /\ [][NextPolicy]_vars

\* C25: every video kept by filter_by_content_policy has a caption with none
\* of the excluded hashtags and none of the excluded keywords in it and, when
\* required hashtags are configured, with at least one of them in it
C25_CaptionPolicy ==
    analyzerRet.call = "policy"
        => \A k \in 1..Len(analyzerRet.kept) :
            LET caption == analyzerRet.videos[analyzerRet.kept[k]].desc
                filters == analyzerRet.filters
            IN  /\ ~AnyTagIn(filters.exclude_hashtags, caption)
                /\ ~AnyTagIn(filters.exclude_keywords, caption)
                /\ filters.require_hashtags # <<>>
                       => AnyTagIn(filters.require_hashtags, caption)

(* -------------------- content analyzer: the selection ----------------- *)

\* the literal bounds of the duration fallback: 3 <= duration <= 60
FallbackMinDuration == 3
FallbackMaxDuration == 60

\* s[:n] for n >= 0
Take(s, n) == SubSeq(s, 1, Min(n, Len(s)))

\* the duration fallback with its test left out
PassesFallbackDuration_Always(video) == TRUE

\* 3 <= duration <= 60
PassesFallbackDuration(video) ==
    FallbackMinDuration <= video.duration
        /\ video.duration <= FallbackMaxDuration

\* the insertion of position i with older videos first
RECURSIVE InsertByTime_Oldest(_, _, _)
InsertByTime_Oldest(videos, i, sorted) ==
    IF sorted = <<>> THEN <<i>>
    ELSE IF videos[Head(sorted)].createTime >= videos[i].createTime
         THEN <<i>> \o sorted
         ELSE <<Head(sorted)>> \o InsertByTime_Oldest(videos, i, Tail(sorted))

\* sorted(..., key=lambda x: int(x.get('createTime', 0)), reverse=True):
\* position i, which precedes those of the sorted rest in the list, goes
\* before the first position whose createTime is not greater (the sort is
\* stable)
RECURSIVE InsertByTime(_, _, _)
InsertByTime(videos, i, sorted) ==
    IF sorted = <<>> THEN <<i>>
    ELSE IF videos[Head(sorted)].createTime <= videos[i].createTime
         THEN <<i>> \o sorted
         ELSE <<Head(sorted)>> \o InsertByTime(videos, i, Tail(sorted))

RECURSIVE SortByTime(_, _)
SortByTime(videos, positions) ==
    IF positions = <<>> THEN <<>>
    ELSE InsertByTime(videos, Head(positions),
                      SortByTime(videos, Tail(positions)))

\* the fallback of select_top_videos with the duration stage alone
fallback_videos_DurationOnly(videos, top_n) ==
    LET duration_filtered ==
            SelectSeq(Positions(Len(videos)),
                      LAMBDA i : PassesFallbackDuration(videos[i]))
    IN  [stage |-> "duration",
         filtered |-> Take(SortByTime(videos, duration_filtered), top_n)]

\* select_top_videos, the block run when the policy kept nothing: the
\* duration filter and the newest top_n of its result, or the newest top_n
\* of all videos when it is empty, or, when a createTime in the list being
\* sorted makes int() raise, the first top_n videos
fallback_videos(videos, top_n) ==
    LET all == Positions(Len(videos))
        duration_filtered ==
            SelectSeq(all, LAMBDA i : PassesFallbackDuration(videos[i]))
        to_sort == IF duration_filtered # <<>> THEN duration_filtered ELSE all
    IN  IF \E k \in 1..Len(to_sort) : ~videos[to_sort[k]].timeOk
        THEN [stage |-> "first", filtered |-> Take(all, top_n)]
        ELSE [stage |-> IF duration_filtered # <<>> THEN "duration"
                        ELSE "recency",
              filtered |-> Take(SortByTime(videos, to_sort), top_n)]

\* the insertion of a scored video behind the videos of equal score
RECURSIVE InsertByScore_AfterEqual(_, _)
InsertByScore_AfterEqual(x, sorted) ==
    IF sorted = <<>> THEN <<x>>
    ELSE IF ScoreGT(x.engagement_score, Head(sorted).engagement_score)
         THEN <<x>> \o sorted
         ELSE <<Head(sorted)>> \o InsertByScore_AfterEqual(x, Tail(sorted))

\* sorted(videos, key=lambda x: x.get('engagement_score', 0), reverse=True):
\* x, which precedes the sorted rest in the list, goes before the first
\* video whose score is not greater (the sort is stable)
RECURSIVE InsertByScore(_, _)
InsertByScore(x, sorted) ==
    IF sorted = <<>> THEN <<x>>
    ELSE IF ScoreGE(x.engagement_score, Head(sorted).engagement_score)
         THEN <<x>> \o sorted
         ELSE <<Head(sorted)>> \o InsertByScore(x, Tail(sorted))

RECURSIVE SortByScore(_)
SortByScore(scored) ==
    IF scored = <<>> THEN <<>>
    ELSE InsertByScore(Head(scored), SortByScore(Tail(scored)))

\* ContentAnalyzer.rank_videos on the videos at the given positions; draws[i]
\* is the value random.uniform gives for video i
rank_videos(videos, positions, draws) ==
    LET scored ==
            [k \in 1..Len(positions) |->
                [idx |-> positions[k],
                 engagement_score |->
                     calculate_engagement_score(videos[positions[k]],
                                                draws[positions[k]])]]
        ranked_videos == SortByScore(scored)
    IN  [k \in 1..Len(ranked_videos) |->
            [idx |-> ranked_videos[k].idx,
             engagement_score |-> ranked_videos[k].engagement_score,
             rank |-> k]]

\* ContentAnalyzer.select_top_videos(videos, channel_name, top_n): the stage
\* that produced the list handed to rank_videos, and the selected videos as
\* positions of the input with their score and rank
select_top_videos(videos, top_n, draws) ==
    IF videos = <<>> THEN [stage |-> "empty", selected |-> <<>>]
    ELSE LET filtered_videos == filter_by_content_policy(videos,
                                                         ShippedFilters)
             chosen == IF filtered_videos # <<>>
                       THEN [stage |-> "strict", filtered |-> filtered_videos]
                       ELSE fallback_videos(videos, top_n)
             ranked_videos == rank_videos(videos, chosen.filtered, draws)
         IN  [stage |-> chosen.stage,
              selected |-> Take(ranked_videos,
                                Min(top_n, Len(ranked_videos)))]

\* the videos a selection is made from: two that pass the policy with equal
\* scores, one with an excluded hashtag, two below the view floor with equal
\* scores, one too long, one without any metric, one without views, and two
\* whose createTime is not a number
SelectVideos ==
    {Video(30, 9999, 100, 0, 0, 1600000000, TRUE, CaptionPlain),
     Video(30, 9999, 100, 0, 0, 1000000000, TRUE, CaptionPlain),
     Video(30, 9999, 500, 0, 0, 1000000000, TRUE, CaptionAd),
     Video(30, 9, 1, 0, 0, 1600000000, TRUE, CaptionPlain),
     Video(30, 9, 1, 0, 0, 1000000000, TRUE, CaptionPlain),
     Video(61, 9, 3, 0, 0, 2000000000, TRUE, CaptionPlain),
     Video(0, 0, 0, 0, 0, 1600000000, TRUE, CaptionPlain),
     Video(30, 0, 5, 0, 0, 2000000000, TRUE, CaptionPlain),
     Video(0, 0, 0, 0, 0, 0, FALSE, CaptionPlain),
     Video(30, 0, 0, 0, 0, 0, FALSE, CaptionPlain)}

\* the video's score is drawn by random.uniform
ScoredAtRandom(video) ==
    /\ ~video.timeOk
    /\ video.playCount = 0 /\ video.diggCount = 0
    /\ video.commentCount = 0 /\ video.shareCount = 0

\* one call of select_top_videos on the list the analyzer was handed
SelectTopVideos ==
    /\ analyzerRet.call = "none"
    /\ \E draws \in [1..Len(analyzerRet.videos) -> RandomFifths] :
        /\ \A i \in 1..Len(analyzerRet.videos) :
               ~ScoredAtRandom(analyzerRet.videos[i]) => draws[i] = 1
        /\ LET r == select_top_videos(analyzerRet.videos, analyzerRet.top_n,
                                      draws)
           IN  analyzerRet' = [analyzerRet EXCEPT !.call = "select",
                                                  !.stage = r.stage,
                                                  !.selected = r.selected]
    /\ UNCHANGED <<quotaVars, uploadVars, cycleVars, ledgerVars>>
    /\ UNCHANGED <<shutdown_requested, writers, observerVars, thresholdRet,
                   scheduleRet>>

\* the analyzer is handed any list of the videos and any top_n
InitSelect ==
    /\ InitStores({NoRec}, {EmptyHistory})
    /\ shutdown_requested = FALSE
    /\ writers = NoWriters
    /\ observer = IdleObserver
    /\ ledgerOnDisk = TRUE
    /\ thresholdRet = NoThreshold
    /\ scheduleRet = NoSchedule
    /\ analyzerRet \in
           {[call |-> "none", videos |-> videos, top_n |-> top_n,
             stage |-> "none", selected |-> <<>>] :
                videos \in UNION {[1..n -> SelectVideos] : n \in 0..MaxListed},
                top_n \in 0..MaxTopN}

NextSelect == SelectTopVideos

SpecSelect == InitSelect /\ [][NextSelect]_vars

(* ----------------------- the selection's contract --------------------- *)

\* the video at position k of the selection
Selected(k) == analyzerRet.videos[analyzerRet.selected[k].idx]

\* the video's duration is inside the configured window
InWindow(video) ==
    MinDuration <= video.duration /\ video.duration <= MaxDuration

DurationPassing ==
    {i \in 1..Len(analyzerRet.videos) :
        PassesFallbackDuration(analyzerRet.videos[i])}

\* the policy kept no video of the input
NoStrictSurvivor ==
    filter_by_content_policy(analyzerRet.videos, ShippedFilters) = <<>>

SelectedIdx ==
    [k \in 1..Len(analyzerRet.selected) |-> analyzerRet.selected[k].idx]

\* every video of the input is below the view floor of the list
AllBelowViewFloor ==
    \A i \in 1..Len(analyzerRet.videos) :
        analyzerRet.videos[i].playCount
            < calculate_dynamic_view_threshold(PlayCounts(analyzerRet.videos))

\* the selection is Min(top_n, count) of the duration-passing videos
SelectedPassDuration ==
    /\ \A k \in 1..Len(SelectedIdx) : SelectedIdx[k] \in DurationPassing
    /\ Len(SelectedIdx)
           = Min(analyzerRet.top_n, Cardinality(DurationPassing))

\* C23 as stated: when every video fails the view floor and some pass the
\* duration test (every createTime being a number), up to top_n of those
\* are returned, newest first
C23_FallbackNewestFirst ==
    (analyzerRet.call = "select" /\ AllBelowViewFloor
     /\ DurationPassing # {}
     /\ \A i \in 1..Len(analyzerRet.videos) : analyzerRet.videos[i].timeOk)
        => /\ SelectedPassDuration
           /\ \A k, l \in 1..Len(SelectedIdx) :
                  k < l => Selected(k).createTime >= Selected(l).createTime

\* C23, amended: when the duration stage produced the result, the selection
\* is the Min(top_n, count) newest of the duration-passing videos (of two
\* with the same createTime the earlier of the input), in the order of
\* their scores, highest first
C23_FallbackNewestByScore ==
    (analyzerRet.call = "select" /\ analyzerRet.stage = "duration")
        => /\ SelectedPassDuration
           /\ \A k \in 1..Len(SelectedIdx) :
                  \A j \in DurationPassing \ {SelectedIdx[m] :
                                                 m \in 1..Len(SelectedIdx)} :
                      \/ analyzerRet.videos[j].createTime
                             < Selected(k).createTime
                      \/ /\ analyzerRet.videos[j].createTime
                                = Selected(k).createTime
                         /\ j > SelectedIdx[k]
           /\ \A k, l \in 1..Len(SelectedIdx) :
                  k < l => ScoreGE(analyzerRet.selected[k].engagement_score,
                                   analyzerRet.selected[l].engagement_score)

\* of three videos below the view floor the two newest were selected; the
\* newest of all has no views and scores 0, so it comes second
C23_Witness ==
    /\ analyzerRet.call = "select"
    /\ analyzerRet.stage = "duration"
    /\ AllBelowViewFloor
    /\ analyzerRet.top_n = 2
    /\ Len(analyzerRet.videos) = 3
    /\ analyzerRet.videos[1].createTime = 1000000000
    /\ analyzerRet.videos[2].createTime = 2000000000
    /\ analyzerRet.videos[2].playCount = 0
    /\ analyzerRet.videos[3].createTime = 1600000000
    /\ SelectedIdx = <<3, 2>>

\* the selection is in the order of the scores, highest first, and carries
\* the ranks 1..N
RankedByScore ==
    /\ \A k \in 1..Len(analyzerRet.selected) :
           analyzerRet.selected[k].rank = k
    /\ \A k, l \in 1..Len(analyzerRet.selected) :
           k < l => ScoreGE(analyzerRet.selected[k].engagement_score,
                            analyzerRet.selected[l].engagement_score)

\* positions k < l of the selection hold videos of equal score
Tied(k, l) ==
    /\ k < l
    /\ ScoreEq(analyzerRet.selected[k].engagement_score,
               analyzerRet.selected[l].engagement_score)

\* C24 as stated: the selection is ordered by score descending with rank
\* 1..N, and two selected videos of equal score are in the order of the
\* input, on the strict path and on every fallback path
C24_StableByInputOrder ==
    analyzerRet.call = "select"
        => /\ RankedByScore
           /\ \A k, l \in 1..Len(analyzerRet.selected) :
                  Tied(k, l) => SelectedIdx[k] < SelectedIdx[l]

\* C24, amended: the selection is ordered by score descending with rank
\* 1..N; two selected videos of equal score are in the order of the input
\* on the strict path and in the last resort, and newest first (in the
\* order of the input when the createTime is equal too) when the duration
\* or the recency stage produced the result
C24_StableByStageOrder ==
    analyzerRet.call = "select"
        => /\ RankedByScore
           /\ \A k, l \in 1..Len(analyzerRet.selected) :
                  Tied(k, l)
                      => IF analyzerRet.stage \in {"duration", "recency"}
                         THEN \/ Selected(k).createTime
                                     > Selected(l).createTime
                              \/ /\ Selected(k).createTime
                                        = Selected(l).createTime
                                 /\ SelectedIdx[k] < SelectedIdx[l]
                         ELSE SelectedIdx[k] < SelectedIdx[l]

\* two videos below the view floor with equal scores, the older one first
\* in the input: the duration stage returned the newer one first
C24_Witness ==
    /\ analyzerRet.call = "select"
    /\ analyzerRet.stage = "duration"
    /\ Len(analyzerRet.videos) = 2
    /\ analyzerRet.videos[1].createTime = 1000000000
    /\ analyzerRet.videos[2].createTime = 1600000000
    /\ SelectedIdx = <<2, 1>>
    /\ Tied(1, 2)

(* ------------------------- the score's contract ----------------------- *)

\* likes + comments + shares of the scored video
Engagement ==
    analyzerRet.video.diggCount + analyzerRet.video.commentCount
    + analyzerRet.video.shareCount

\* a score has been calculated for a video with a metric above 0
ScoredWithMetrics ==
    /\ analyzerRet.call = "score"
    /\ (analyzerRet.video.playCount > 0 \/ Engagement > 0)

\* C26 as stated: with a metric above 0 the score is
\* 0.4 * log10(views + 1) + 0.6 * 10 * engagement / max(views, 1), which is
\* 6 * engagement for views = 0
C26_NormalRegimeWithMaxViews ==
    ScoredWithMetrics
        => ScoreEq(analyzerRet.score,
                   Score(2 * Log10(analyzerRet.video.playCount + 1),
                         Engagement,
                         Max(analyzerRet.video.playCount, 1)))

\* C26, amended: with views > 0 the score is
\* 0.4 * log10(views + 1) + 0.6 * 10 * engagement / views and is not below
\* the score of the same video with fewer likes; with views = 0 and
\* engagement > 0 the score is 0
C26_NormalRegimeOrZero ==
    ScoredWithMetrics
        => IF analyzerRet.video.playCount > 0
           THEN /\ ScoreEq(analyzerRet.score,
                           Score(2 * Log10(analyzerRet.video.playCount + 1),
                                 Engagement, analyzerRet.video.playCount))
                /\ \A fewer \in 0..analyzerRet.video.diggCount :
                       ScoreGE(analyzerRet.score,
                               calculate_engagement_score(
                                   [analyzerRet.video
                                       EXCEPT !.diggCount = fewer], 1))
           ELSE ScoreEq(analyzerRet.score, Score(0, 0, 1))

\* a video without views and with 105 likes, comments and shares scored 0
C26_Witness ==
    /\ analyzerRet.call = "score"
    /\ analyzerRet.video.playCount = 0
    /\ Engagement = 105
    /\ analyzerRet.score = Score(0, 0, 1)

(* -------------------------- upload schedule --------------------------- *)

\* the num_videos argument of get_upload_schedule and the length of a batch
\* handed to schedule_uploads are 0..NumSlots
NumSlots == 4

\* REPOSTING_SETTINGS['max_videos_per_day'] (MAX_VIDEOS_PER_DAY unset)
MaxVideosPerDay == 3

\* days_added is counted up to here; the loop reaches it only when it adds
\* no slot at all
MaxDaysAdded == 7 * (NumSlots + 2)

\* day_map
DayNames == {"Monday", "Tuesday", "Wednesday", "Thursday", "Friday",
             "Saturday", "Sunday"}
day_map(day) ==
    CASE day = "Monday" -> 0
      [] day = "Tuesday" -> 1
      [] day = "Wednesday" -> 2
      [] day = "Thursday" -> 3
      [] day = "Friday" -> 4
      [] day = "Saturday" -> 5
      [] day = "Sunday" -> 6

\* REPOSTING_SETTINGS['publish_days'] and ['schedule_times'] as shipped; a
\* time 'HH:MM' is the pair <<HH, MM>>
ShippedPublishDays == <<"Monday", "Wednesday", "Friday">>
ShippedScheduleTimes == << <<8, 0>>, <<12, 0>>, <<18, 0>> >>

\* the settings a schedule is generated under: as shipped, with no valid
\* weekday name, with one valid name among others; as shipped, with no time,
\* with one time
PublishDaysSettings ==
    {ShippedPublishDays, <<"Funday">>, <<"Sunday", "Caturday">>}
ScheduleTimesSettings == {ShippedScheduleTimes, <<>>, << <<12, 0>> >>}

\* now.strftime('%H:%M') at the call
NowTimes == {<<7, 59>>, <<12, 0>>, <<18, 30>>}

\* time_str <= current_time on zero-padded 'HH:MM' strings
TimeLE(a, b) == a[1] < b[1] \/ (a[1] = b[1] /\ a[2] <= b[2])

\* [day_map[day] for day in publish_days if day in day_map], all days if
\* that is empty
publish_day_indices(publish_days) ==
    LET listed == {day_map(publish_days[k]) :
                      k \in {j \in 1..Len(publish_days) :
                                publish_days[j] \in DayNames}}
    IN  IF listed = {} THEN 0..6 ELSE listed

\* now + timedelta(days=days_added) with hour and minute replaced
Slot(days_added, time) == [days |-> days_added, time |-> time]

\* the for loop over schedule_times with no time of the current day skipped
RECURSIVE AddTimes_NoSkip(_, _, _)
AddTimes_NoSkip(schedule, times, st) ==
    IF times = <<>> THEN schedule
    ELSE LET added == Append(schedule, Slot(st.days_added, Head(times)))
         IN  IF Len(added) >= st.num_videos THEN added
             ELSE AddTimes_NoSkip(added, Tail(times), st)

\* get_upload_schedule, lines 339-357: the for loop over schedule_times
RECURSIVE AddTimes(_, _, _)
AddTimes(schedule, times, st) ==
    IF times = <<>> THEN schedule
    ELSE IF st.days_added = 0 /\ TimeLE(Head(times), st.current_time)
         THEN AddTimes(schedule, Tail(times), st)
    ELSE LET added == Append(schedule, Slot(st.days_added, Head(times)))
         IN  IF Len(added) >= st.num_videos THEN added
             ELSE AddTimes(added, Tail(times), st)

\* no scheduling call has been made: the clock, the settings and the
\* arguments of the call to come
IdleSchedule ==
    [pc |-> "idle", caller |-> "none", now_day |-> 0, now_time |-> <<0, 0>>,
     publish_days |-> <<>>, schedule_times |-> <<>>, num_videos |-> 0,
     files |-> 0, data |-> 0, current_day |-> 0, current_time |-> <<0, 0>>,
     days_added |-> 0, schedule |-> <<>>, scheduled |-> <<>>,
     failed |-> <<>>]

\* get_upload_schedule, lines 314-335: up to the while loop
schedule_start(st, num_videos) ==
    [st EXCEPT !.pc = "loop", !.num_videos = num_videos,
               !.current_day = st.now_day, !.current_time = st.now_time,
               !.days_added = 0, !.schedule = <<>>]

\* a direct call get_upload_schedule(num_videos)
GetUploadSchedule ==
    /\ scheduleRet.pc = "idle"
    /\ scheduleRet.caller = "get_upload_schedule"
    /\ scheduleRet' = schedule_start(scheduleRet, scheduleRet.num_videos)
    /\ UNCHANGED <<quotaVars, uploadVars, cycleVars, ledgerVars>>
    /\ UNCHANGED <<shutdown_requested, writers, observerVars, thresholdRet,
                   analyzerRet>>

\* schedule_uploads(video_files, video_data_list), lines 380-394, with a
\* valid token and auto_schedule on: the call of
\* get_upload_schedule(max_videos)
ScheduleUploads ==
    /\ scheduleRet.pc = "idle"
    /\ scheduleRet.caller = "schedule_uploads"
    /\ scheduleRet' =
           schedule_start(scheduleRet,
                          Min(scheduleRet.files, MaxVideosPerDay))
    /\ UNCHANGED <<quotaVars, uploadVars, cycleVars, ledgerVars>>
    /\ UNCHANGED <<shutdown_requested, writers, observerVars, thresholdRet,
                   analyzerRet>>

\* get_upload_schedule, lines 336-364: one pass of the while loop
ScheduleDay ==
    /\ scheduleRet.pc = "loop"
    /\ Len(scheduleRet.schedule) < scheduleRet.num_videos
    /\ scheduleRet' =
           [scheduleRet EXCEPT
               !.schedule =
                   IF scheduleRet.current_day
                          \in publish_day_indices(scheduleRet.publish_days)
                   THEN AddTimes(@, scheduleRet.schedule_times, scheduleRet)
                   ELSE @,
               !.current_day = (@ + 1) % 7,
               !.days_added = IF @ < MaxDaysAdded THEN @ + 1 ELSE @,
               !.current_time = <<0, 0>>]
    /\ UNCHANGED <<quotaVars, uploadVars, cycleVars, ledgerVars>>
    /\ UNCHANGED <<shutdown_requested, writers, observerVars, thresholdRet,
                   analyzerRet>>

\* get_upload_schedule, lines 336 and 366: the loop ends, the schedule is
\* returned
ScheduleReturn ==
    /\ scheduleRet.pc = "loop"
    /\ ~(Len(scheduleRet.schedule) < scheduleRet.num_videos)
    /\ scheduleRet' = [scheduleRet EXCEPT !.pc = "returned"]
    /\ UNCHANGED <<quotaVars, uploadVars, cycleVars, ledgerVars>>
    /\ UNCHANGED <<shutdown_requested, writers, observerVars, thresholdRet,
                   analyzerRet>>

\* schedule_uploads, lines 396-418: one record per pair of
\* zip(video_files[:max_videos], video_data_list[:max_videos])
ScheduleUploadsRecords ==
    /\ scheduleRet.pc = "returned"
    /\ scheduleRet.caller = "schedule_uploads"
    /\ LET max_videos == scheduleRet.num_videos
           pairs == Min(Min(scheduleRet.files, max_videos),
                        Min(scheduleRet.data, max_videos))
       IN  scheduleRet' =
               [scheduleRet EXCEPT
                   !.pc = "done",
                   !.scheduled =
                       [i \in 1..pairs |->
                           [video_file |-> i, video_data |-> i,
                            scheduled_time |-> scheduleRet.schedule[i]]],
                   !.failed = <<>>]
    /\ UNCHANGED <<quotaVars, uploadVars, cycleVars, ledgerVars>>
    /\ UNCHANGED <<shutdown_requested, writers, observerVars, thresholdRet,
                   analyzerRet>>

\* any weekday and time of the call, any of the settings, and either a
\* direct call for 0..NumSlots slots or a batch of 0..NumSlots files with
\* as many data records or one less
InitSchedule ==
    /\ InitStores({NoRec}, {EmptyHistory})
    /\ shutdown_requested = FALSE
    /\ writers = NoWriters
    /\ observer = IdleObserver
    /\ ledgerOnDisk = TRUE
    /\ thresholdRet = NoThreshold
    /\ analyzerRet = NoAnalysis
    /\ \E now_day \in 0..6, now_time \in NowTimes,
          publish_days \in PublishDaysSettings,
          schedule_times \in ScheduleTimesSettings, n \in 0..NumSlots :
        LET st == [IdleSchedule EXCEPT !.now_day = now_day,
                                       !.now_time = now_time,
                                       !.publish_days = publish_days,
                                       !.schedule_times = schedule_times]
        IN  \/ scheduleRet = [st EXCEPT !.caller = "get_upload_schedule",
                                        !.num_videos = n]
            \/ \E m \in {n, n - 1} \cap (0..NumSlots) :
                   scheduleRet = [st EXCEPT !.caller = "schedule_uploads",
                                            !.files = n, !.data = m]

NextSchedule ==
    \/ GetUploadSchedule
    \/ ScheduleUploads
    \/ ScheduleDay
    \/ ScheduleReturn
    \/ ScheduleUploadsRecords

SpecSchedule == InitSchedule /\ [][NextSchedule]_vars

\* the interpreter keeps running the loop
SpecScheduleFair == SpecSchedule /\ WF_vars(NextSchedule)

(* ----------------------- the schedule's contract ---------------------- *)

\* slot a is earlier than slot b
SlotBefore(a, b) ==
    \/ a.days < b.days
    \/ a.days = b.days /\ TimeLE(a.time, b.time) /\ a.time # b.time

\* the slot is on an allowed weekday, at a configured time and later than
\* the call
AllowedSlot(slot) ==
    /\ \E k \in 1..Len(scheduleRet.publish_days) :
           \/ /\ scheduleRet.publish_days[k] \in DayNames
              /\ day_map(scheduleRet.publish_days[k])
                     = (scheduleRet.now_day + slot.days) % 7
           \/ \A j \in 1..Len(scheduleRet.publish_days) :
                  scheduleRet.publish_days[j] \notin DayNames
    /\ \E t \in 1..Len(scheduleRet.schedule_times) :
           scheduleRet.schedule_times[t] = slot.time
    /\ slot.days > 0 \/ ~TimeLE(slot.time, scheduleRet.now_time)

C30_ScheduleTerminates ==
    <>(/\ scheduleRet.pc = "returned"
       /\ Len(scheduleRet.schedule) = scheduleRet.num_videos)

(* ------------------- two writers inside track_api_usage --------------- *)

\* the writers before any call of track_api_usage: no call in progress, no
\* call completed, and the file as it was
IdleTrackers(active, q) ==
    [active |-> active,
     at |-> [w \in {1, 2} |->
               [pc |-> "idle", op |-> "none", count |-> 0, quota_data |-> q]],
     calls |-> [op \in WriterOps |-> 0],
     cost |-> 0,
     before |-> q]

\* track_api_usage, lines 661-682: writer w enters the call and loads the
\* quota file
TrackLoad(w) ==
    \E op \in WriterOps, count \in 1..MaxCount :
        /\ w \in writers.active
        /\ writers.at[w].pc = "idle"
        /\ trackCalls < MaxTrackCalls
        /\ writers' = [writers EXCEPT
               !.at[w] = [pc |-> "loaded", op |-> op, count |-> count,
                          quota_data |-> quota]]
        /\ trackCalls' = trackCalls + 1
        /\ UNCHANGED <<today, quota, writable, api, ret>>
        /\ UNCHANGED <<shutdown_requested, observerVars, thresholdRet,
                       plannerVars>>
        /\ UNCHANGED <<uploadVars, cycleVars, ledgerVars>>

\* track_api_usage, lines 683-720: writer w updates the data it loaded,
\* writes the file and returns
TrackSave(w) ==
    /\ w \in writers.active
    /\ writers.at[w].pc = "loaded"
    /\ LET me == writers.at[w]
           r == track_api_usage(me.quota_data, today, me.op, me.count,
                                writable)
       IN  /\ quota' = r.quota
           /\ writers' = [writers EXCEPT
                  !.at[w] = [pc |-> "idle", op |-> "none", count |-> 0,
                             quota_data |-> r.quota],
                  !.calls[me.op] = @ + me.count,
                  !.cost = @ + QUOTA_COSTS(me.op) * me.count]
    /\ UNCHANGED <<today, writable, api, ret, trackCalls>>
    /\ UNCHANGED <<shutdown_requested, observerVars, thresholdRet,
                   plannerVars>>
    /\ UNCHANGED <<uploadVars, cycleVars, ledgerVars>>

\* one writer, or two writers on the same file
InitTrackers ==
    /\ InitStores({NoRec, PriorRec(1, 2)}, {EmptyHistory})
    /\ shutdown_requested = FALSE
    /\ observer = IdleObserver
    /\ thresholdRet = NoThreshold
    /\ analyzerRet = NoAnalysis
    /\ scheduleRet = NoSchedule
    /\ ledgerOnDisk = TRUE
    /\ \E a \in {{1}, {1, 2}} : writers = IdleTrackers(a, quota)

NextTrackers ==
    \/ \E w \in {1, 2} : TrackLoad(w)
    \/ \E w \in {1, 2} : TrackSave(w)

SpecTrackers == InitTrackers /\ [][NextTrackers]_vars

\* C28: when no call of track_api_usage is in progress, the used of the day
\* is what it was plus the costs of all completed calls, and each
\* operation's count is what it was plus the calls made
C28_NoCommitLost ==
    (\A w \in writers.active : writers.at[w].pc = "idle")
        => /\ UsedOn(quota, today)
                  = UsedOn(writers.before, today) + writers.cost
           /\ \A op \in WriterOps :
                  (IF quota[today].present
                   THEN quota[today].ops[op].count ELSE 0)
                      = writers.before[today].ops[op].count
                        + writers.calls[op]

(* ------------------- the dispatch reports every item ------------------ *)

\* how often the file is reported by the returned lists of the dispatch
TimesReported(file) ==
    Cardinality({k \in 1..Len(d.successful) : d.successful[k] = file})
    + Cardinality({k \in 1..Len(d.failed) : d.failed[k].file = file})

\* C29: when _upload_immediately has returned its two lists, every file of
\* the input is in exactly one of them, once
C29_EveryItemReportedOnce ==
    (d.pc = "returned" /\ ~d.raised)
        => \A k \in 1..Len(d.input) : TimesReported(d.input[k]) = 1

====
